---- MODULE Spec2Model ----
(***************************************************************************)
(* claude-python-guardrails: the PID/cooldown lock of src/locking.rs and   *)
(* the part of the orchestrator (src/automation.rs) that runs under it.    *)
(*                                                                         *)
(* One (workspace, operation) key is modelled: one lock file in /tmp.      *)
(* Every CLI invocation is one OS process; processes interleave at the     *)
(* granularity of their file-system calls, liveness probes and clock reads.*)
(* The lock file is a sequence of characters, written with to_string and   *)
(* read back with lines/trim/parse as the code does.                       *)
(*                                                                         *)
(* Scaling: u32, u64 and i64 are modelled with PidBits and IntBits bits,   *)
(* the clock counts whole seconds (Utc::now().timestamp()).                *)
(***************************************************************************)
EXTENDS Integers, Sequences, FiniteSets

\* ------------------------------------------------------------- bounds
NumProcs == 2
MaxTime == 3
IntBits == 4
PidBits == 4
MaxFileLen == 3
BufLen == 1
MaxFileBytes == 2
MaxMsgLen == 4
MaxTimeoutSeconds == 2
PollsPerSecond == 2
MaxOverrun == 3

\* ------------------------------------------------------ integer types
I64Max == 2^(IntBits - 1) - 1
I64Min == -(2^(IntBits - 1))
U64Max == 2^IntBits - 1
U32Max == 2^PidBits - 1
\* chrono's DateTime::from_timestamp accepts a proper sub-range of i64
TimestampMax == I64Max - 2
TimestampMin == I64Min + 2

\* `c as i64` for a u64 c: two's complement reinterpretation
AsI64(c) == IF c > I64Max THEN c - 2^IntBits ELSE c

\* ---------------------------------------------------------- characters
LF == "\n"
CR == "\r"
SP == " "
Digits == <<"0", "1", "2", "3", "4", "5", "6", "7", "8", "9">>
DigitSet == {Digits[i] : i \in 1..10}
DigitVal(ch) == (CHOOSE i \in 1..10 : Digits[i] = ch) - 1
Whitespace == {SP, CR, LF}

\* u32::to_string / i64::to_string of a non-negative number
RECURSIVE to_string(_)
to_string(n) ==
    IF n < 10 THEN <<Digits[n + 1]>>
    ELSE to_string(n \div 10) \o <<Digits[(n % 10) + 1]>>

\* str::lines: split at "\n", a trailing "\r" of a line is dropped, and a
\* final empty piece (after a trailing "\n", or of the empty string) is no line
RECURSIVE SplitLF(_, _)
SplitLF(s, cur) ==
    IF s = <<>> THEN <<cur>>
    ELSE IF Head(s) = LF THEN <<cur>> \o SplitLF(Tail(s), <<>>)
    ELSE SplitLF(Tail(s), Append(cur, Head(s)))

StripCR(l) ==
    IF Len(l) > 0 /\ l[Len(l)] = CR THEN SubSeq(l, 1, Len(l) - 1) ELSE l

Lines(s) ==
    LET pieces == SplitLF(s, <<>>)
        n == Len(pieces)
        kept == IF pieces[n] = <<>> THEN SubSeq(pieces, 1, n - 1) ELSE pieces
    IN [i \in 1..Len(kept) |-> StripCR(kept[i])]

\* str::trim
RECURSIVE TrimStart(_)
TrimStart(s) ==
    IF s # <<>> /\ Head(s) \in Whitespace THEN TrimStart(Tail(s)) ELSE s

RECURSIVE TrimEnd(_)
TrimEnd(s) ==
    IF s # <<>> /\ s[Len(s)] \in Whitespace
    THEN TrimEnd(SubSeq(s, 1, Len(s) - 1)) ELSE s

Trim(s) == TrimEnd(TrimStart(s))

\* value of a digit string; -1 when empty or when a character is no digit
RECURSIVE DigitsValue(_, _)
DigitsValue(s, acc) ==
    IF s = <<>> THEN acc
    ELSE IF Head(s) \notin DigitSet THEN -1
    ELSE DigitsValue(Tail(s), 10 * acc + DigitVal(Head(s)))

Magnitude(s) == IF s = <<>> THEN -1 ELSE DigitsValue(s, 0)

Err == [ok |-> FALSE, val |-> 0]
Ok(v) == [ok |-> TRUE, val |-> v]

\* str::parse::<u32>: an optional "+", then digits; no "-"; at most u32::MAX
ParseU32(s) ==
    LET body == IF s # <<>> /\ Head(s) = "+" THEN Tail(s) ELSE s
        m == Magnitude(body)
    IN IF m < 0 \/ m > U32Max THEN Err ELSE Ok(m)

\* str::parse::<i64>: an optional "+" or "-", then digits; within i64
ParseI64(s) ==
    LET neg == s # <<>> /\ Head(s) = "-"
        body == IF s # <<>> /\ Head(s) \in {"+", "-"} THEN Tail(s) ELSE s
        m == Magnitude(body)
        v == IF neg THEN -m ELSE m
    IN IF m < 0 \/ v > I64Max \/ v < I64Min THEN Err ELSE Ok(v)

\* ------------------------------------------------------------- state
\* PIDs of the tool's invocations
Procs == 9..(9 + NumProcs - 1)

VARIABLES
    lock_exists,      \* the lock file exists in /tmp
    lock_file,        \* its content
    now,              \* Utc::now() in whole seconds
    live,             \* the PIDs that name a live OS process
    pc,               \* where each invocation of the tool stands
    cooldown_seconds, \* ProcessLock.cooldown_seconds of each invocation
    lock_content,     \* should_skip's local copy of the file
    result,           \* what the orchestrator returned
    acquires,         \* history: acquire() calls that wrote the PID
    releases,         \* history: release() calls
    stale_view,       \* history: the file was written while another
                      \* invocation stood between its read and its write
    checker,          \* the GuardrailsChecker: matchers and rules
    file_path,        \* the path the exclusion verdict is asked for
    file,             \* what the file system holds at file_path
    verdict,          \* what should_exclude_context returned, per context,
                      \* since the file last changed
    accesses,         \* the matchers it consulted and the file system
                      \* calls it made for that, in order
    automation_result, \* what handle_smart_lint / handle_smart_test gave main
    exit_status,      \* the exit code of the process, once it has exited
    stderr_message,   \* the message main printed on stderr, if any
    cmd_pc,           \* where run_command_with_timeout stands
    timeout,          \* its timeout, in poll intervals of 100 ms
    elapsed,          \* start.elapsed(), in poll intervals
    child,            \* the spawned child: its state, status, output, when
                      \* it ended, whether a descendant holds the pipes open
    timed_out,        \* history: wait_with_timeout returned None
    cmd_output,       \* what run_command_with_timeout returned
    config,           \* AutomationConfig: lint_enabled, test_enabled
    operation,        \* "lint" (handle_smart_lint) or "test" (handle_smart_test)
    hook_input,       \* what from_stdin gives: the hook event, or an error
    tool_run,         \* what happened in run_lint_command / run_test_command
    cli,              \* the command line of a check, lint or test command
    built,            \* what load_checker returned, once it has
    printed,          \* the lines main printed on stdout
    lock_keys,        \* the workspace and operation each invocation locks
    tmp_dir,          \* the lock files in /tmp: names and contents
    try_acquired      \* what try_acquire returned to each invocation

lock_vars == <<lock_exists, lock_file, now, live, pc, cooldown_seconds,
               lock_content, result, acquires, releases, stale_view>>

exclusion_vars == <<checker, file_path, file, verdict, accesses>>

exit_vars == <<automation_result, exit_status, stderr_message>>

command_vars == <<cmd_pc, timeout, elapsed, child, timed_out, cmd_output>>

hook_vars == <<config, operation, hook_input, tool_run>>

cli_vars == <<cli, built, printed>>

name_vars == <<lock_keys, tmp_dir, try_acquired>>

\* what the steps of the lock protocol leave alone
outside_lock == <<exclusion_vars, exit_vars, command_vars, hook_vars,
                   cli_vars, name_vars>>

\* what the calls of the exclusion engine leave alone
outside_exclusion == <<lock_vars, exit_vars, command_vars, hook_vars,
                   cli_vars, name_vars>>

\* what the exit of main leaves alone
outside_exit == <<lock_vars, exclusion_vars, command_vars, hook_vars,
                   cli_vars, name_vars>>

\* what run_command_with_timeout leaves alone
outside_command == <<lock_vars, exclusion_vars, exit_vars, hook_vars,
                   cli_vars, name_vars>>

\* what the steps of a handler before try_acquire leave alone
outside_hook == <<exit_vars, command_vars, cli_vars, name_vars>>

\* what the check, lint and test commands leave alone
outside_cli == <<lock_vars, command_vars, hook_vars, name_vars>>

vars == <<lock_vars, exclusion_vars, exit_vars, command_vars, hook_vars,
          cli_vars, name_vars>>

\* The cooldowns a configuration may give (u64): none, short ones, and one
\* above i64::MAX
Cooldowns == {0, 1, 2, I64Max + 1}

Outcomes == {"NoAction", "Skipped", "Success", "Failure", "Error"}

\* fs::write = File::create (creates, truncates) then write_all
WriteOutcomes == {"written", "open_failed", "write_failed"}

\* ------------------------------------------------- ProcessLock (pure)
\* the PID looked for one line too far
pid_line_off_by_one(content) ==
    LET lines == Lines(content)
    IN IF Len(lines) >= 2 THEN ParseU32(Trim(lines[2])) ELSE Err

\* line 0 of the file as a PID
pid_line(content) ==
    LET lines == Lines(content)
    IN IF Len(lines) >= 1 THEN ParseU32(Trim(lines[1])) ELSE Err

\* line 1 of the file as a timestamp
timestamp_line(content) ==
    LET lines == Lines(content)
    IN IF Len(lines) >= 2 THEN ParseI64(Trim(lines[2])) ELSE Err

\* a probe that never finds the process (the probe command's failure path)
is_process_running_never(pid) == FALSE

\* `kill -0 pid` succeeds: some live process has this PID
is_process_running(pid) == pid \in live

\* DateTime::from_timestamp(timestamp, 0) is Some
from_timestamp_ok(ts) == ts >= TimestampMin /\ ts <= TimestampMax

\* the cooldown compared with nothing elapsed: it never runs out
in_cooldown_ignoring_clock(ts, t, c) == 0 < AsI64(c)

\* duration_since_completion.num_seconds() < self.cooldown_seconds as i64
in_cooldown(ts, t, c) == t - ts < AsI64(c)

\* the timestamp half of should_skip on `content`, at clock t, cooldown c
cooldown_check(content, t, c) ==
    LET ts == timestamp_line(content)
    IN IF ~ts.ok THEN "false"
       ELSE IF ~from_timestamp_ok(ts.val) THEN "error"
       ELSE IF in_cooldown(ts.val, t, c) THEN "true"
       ELSE "false"

\* the PID line taken as proof of a running process, without the probe
pid_check_without_probe(content) == pid_line(content).ok

\* a first line that is no PID taken for a running holder
pid_check_unparsed_is_running(content) ==
    LET pid == pid_line(content)
    IN ~pid.ok \/ is_process_running(pid.val)

\* the PID half of should_skip on `content`
pid_check(content) ==
    LET pid == pid_line(content)
    IN pid.ok /\ is_process_running(pid.val)

\* should_skip() of a ProcessLock with cooldown c, run in the current state
should_skip(c) ==
    IF ~lock_exists THEN "false"
    ELSE IF pid_check(lock_file) THEN "true"
    ELSE cooldown_check(lock_file, now, c)

\* what release() writes: an empty first line, then the timestamp
release_content_without_pid_line(t) == to_string(t)

\* the stamp of the second after the drop
release_content_of_next_second(t) == <<LF>> \o to_string(t + 1)
release_content(t) == <<LF>> \o to_string(t)

\* a stamp written together with the PID
acquire_content_with_stamp(pid) == to_string(pid) \o <<LF>> \o to_string(0)
\* the PID of the next process written instead of the caller's
acquire_content_of_next(pid) == to_string(pid + 1)
\* what acquire() writes: the PID alone
acquire_content(pid) == to_string(pid)

\* a write that removes the file when it fails
written_exists_unless_failed(o) == o = "written"

\* the file after fs::write(content) ended with outcome `o`
written_exists(o) == IF o = "open_failed" THEN lock_exists ELSE TRUE

written_file(o, content) ==
    CASE o = "written" -> content
      [] o = "open_failed" -> lock_file
      [] OTHER -> <<>>

\* ---------------------------------------------------------- actions
\* the invocations that have read the file and not yet written it
Deciding(p) == {q \in Procs \ {p} : pc[q] \in {"probe", "cooldown", "acquire"}}

\* fs::write by p
Write(p, o, content) ==
    /\ lock_exists' = written_exists(o)
    /\ lock_file' = written_file(o, content)
    /\ stale_view' = (stale_view \/ (o # "open_failed" /\ Deciding(p) # {}))

\* the invocation returns r from handle_smart_lint / handle_smart_test and
\* the process ends (main: std::process::exit)
Return(p, r) ==
    /\ result' = [result EXCEPT ![p] = r]
    /\ pc' = [pc EXCEPT ![p] = "done"]
    /\ live' = live \ {p}
    /\ lock_content' = [lock_content EXCEPT ![p] = <<>>]
    /\ cooldown_seconds' = [cooldown_seconds EXCEPT ![p] = 0]

\* should_skip goes on to its next line
Goto(p, label) ==
    /\ pc' = [pc EXCEPT ![p] = label]
    /\ UNCHANGED <<result, live, cooldown_seconds>>

\* the hook starts the tool: handle_smart_lint up to ProcessLock::new
Start(p) ==
    /\ pc[p] = "start"
    /\ p \notin live
    /\ \E c \in Cooldowns :
          cooldown_seconds' = [cooldown_seconds EXCEPT ![p] = c]
    /\ live' = live \cup {p}
    /\ pc' = [pc EXCEPT ![p] = "read"]
    /\ UNCHANGED <<lock_exists, lock_file, now, lock_content, result,
                   acquires, releases, stale_view>>
    /\ UNCHANGED outside_lock

\* should_skip: exists() and read_to_string
should_skip_read(p) ==
    /\ pc[p] = "read"
    /\ IF ~lock_exists
       THEN /\ Goto(p, "acquire")
            /\ UNCHANGED lock_content
       ELSE /\ Goto(p, "probe")
            /\ lock_content' = [lock_content EXCEPT ![p] = lock_file]
    /\ UNCHANGED <<lock_exists, lock_file, now, acquires, releases,
                   stale_view>>
    /\ UNCHANGED outside_lock

\* the guard built before the check, so that declining drops it and releases
should_skip_probe_releasing(p) ==
    /\ pc[p] = "probe"
    /\ IF pid_check(lock_content[p])
       THEN /\ Return(p, "Skipped")
            /\ Write(p, "written", release_content(now))
            /\ releases' = [releases EXCEPT ![p] = @ + 1]
       ELSE /\ Goto(p, "cooldown")
            /\ UNCHANGED <<lock_content, lock_exists, lock_file, releases,
                           stale_view>>
    /\ UNCHANGED <<now, acquires>>
    /\ UNCHANGED outside_lock

\* should_skip: the PID line and the liveness probe
should_skip_probe(p) ==
    /\ pc[p] = "probe"
    /\ IF pid_check(lock_content[p])
       THEN Return(p, "Skipped")
       ELSE /\ Goto(p, "cooldown")
            /\ UNCHANGED lock_content
    /\ UNCHANGED <<lock_exists, lock_file, now, acquires, releases,
                   stale_view>>
    /\ UNCHANGED outside_lock

\* should_skip: the timestamp line against Utc::now()
should_skip_cooldown(p) ==
    /\ pc[p] = "cooldown"
    /\ LET r == cooldown_check(lock_content[p], now, cooldown_seconds[p])
       IN CASE r = "true" -> Return(p, "Skipped")
            [] r = "error" -> Return(p, "Error")
            [] OTHER -> /\ Goto(p, "acquire")
                        /\ lock_content' = [lock_content EXCEPT ![p] = <<>>]
    /\ UNCHANGED <<lock_exists, lock_file, now, acquires, releases,
                   stale_view>>
    /\ UNCHANGED outside_lock

\* the write's error dropped (`let _ = fs::write(..)`): a guard either way
acquire_swallowing_error(p, o) ==
    /\ pc[p] = "acquire"
    /\ Write(p, o, acquire_content(p))
    /\ acquires' = [acquires EXCEPT ![p] = IF o = "written" THEN @ + 1 ELSE @]
    /\ pc' = [pc EXCEPT ![p] = "run"]
    /\ cooldown_seconds' = [cooldown_seconds EXCEPT ![p] = 0]
    /\ UNCHANGED <<result, live, lock_content, now, releases>>
    /\ UNCHANGED outside_lock

\* acquire(): write the PID; try_acquire returns the guard, or the error
\* that handle_smart_lint / handle_smart_test pass on with `?`
acquire(p, o) ==
    /\ pc[p] = "acquire"
    /\ Write(p, o, acquire_content(p))
    /\ IF o = "written"
       THEN /\ acquires' = [acquires EXCEPT ![p] = @ + 1]
            /\ pc' = [pc EXCEPT ![p] = "run"]
            /\ cooldown_seconds' = [cooldown_seconds EXCEPT ![p] = 0]
            /\ UNCHANGED <<result, live, lock_content>>
       ELSE /\ Return(p, "Error")
            /\ UNCHANGED acquires
    /\ UNCHANGED <<now, releases>>
    /\ UNCHANGED outside_lock

\* the guard leaked on the error path: no release when the run returns Err
drop_leaking_on_error(p, o, r) ==
    /\ pc[p] = "run"
    /\ IF r = "Error"
       THEN UNCHANGED <<lock_exists, lock_file, stale_view, releases>>
       ELSE /\ Write(p, o, release_content(now))
            /\ releases' = [releases EXCEPT ![p] = @ + 1]
    /\ Return(p, r)
    /\ UNCHANGED <<now, acquires>>
    /\ UNCHANGED outside_lock

\* a drop that turns a failed release into the error of the run
drop_escalating(p, o, r) ==
    /\ pc[p] = "run"
    /\ Write(p, o, release_content(now))
    /\ releases' = [releases EXCEPT ![p] = @ + 1]
    /\ Return(p, IF o = "written" THEN r ELSE "Error")
    /\ UNCHANGED <<now, acquires>>
    /\ UNCHANGED outside_lock

\* run_lint_command / run_test_command returns r, the guard goes out of
\* scope: Drop for LockGuard runs release(), whose failure is only printed
drop(p, o, r) ==
    /\ pc[p] = "run"
    /\ Write(p, o, release_content(now))
    /\ releases' = [releases EXCEPT ![p] = @ + 1]
    /\ Return(p, r)
    /\ UNCHANGED <<now, acquires>>
    /\ UNCHANGED outside_lock

\* the host kills the process (SIGKILL): nothing more runs in it
Kill(p) ==
    /\ pc[p] \in {"read", "probe", "cooldown", "acquire", "run"}
    /\ pc' = [pc EXCEPT ![p] = "killed"]
    /\ live' = live \ {p}
    /\ lock_content' = [lock_content EXCEPT ![p] = <<>>]
    /\ cooldown_seconds' = [cooldown_seconds EXCEPT ![p] = 0]
    /\ UNCHANGED <<lock_exists, lock_file, now, result, acquires, releases,
                   stale_view>>
    /\ UNCHANGED outside_lock

\* the OS gives the PID of an ended invocation to an unrelated process
PidReuse(p) ==
    /\ pc[p] \in {"done", "killed"}
    /\ p \notin live
    /\ live' = live \cup {p}
    /\ UNCHANGED <<lock_exists, lock_file, now, pc, cooldown_seconds,
                   lock_content, result, acquires, releases, stale_view>>
    /\ UNCHANGED outside_lock

\* that unrelated process ends
ForeignExit(p) ==
    /\ pc[p] \in {"done", "killed"}
    /\ p \in live
    /\ live' = live \ {p}
    /\ UNCHANGED <<lock_exists, lock_file, now, pc, cooldown_seconds,
                   lock_content, result, acquires, releases, stale_view>>
    /\ UNCHANGED outside_lock

\* a second passes
Tick ==
    /\ now < MaxTime
    /\ now' = now + 1
    /\ UNCHANGED <<lock_exists, lock_file, live, pc, cooldown_seconds,
                   lock_content, result, acquires, releases, stale_view>>
    /\ UNCHANGED outside_lock

\* what handle_smart_lint / handle_smart_test return with the guard held
RunOutcomes == Outcomes \ {"Skipped"}

\* ------------------------------------------ GuardrailsChecker (pure)
\* ExclusionContext
Contexts == {"Any", "Lint", "Test"}

\* the paths asked about: a plain source file, and one whose name holds a
\* generated-file marker in upper case
PathPlain == <<"m", ".", "p", "y">>
PathMarked == <<"a", ".", "G", "E", "N", ".", "p", "y">>
Paths == {PathPlain, PathMarked}

\* char::to_lowercase on the letters in use
ToLower(ch) ==
    CASE ch = "G" -> "g"
      [] ch = "E" -> "e"
      [] ch = "N" -> "n"
      [] OTHER -> ch

to_lowercase(s) == [i \in 1..Len(s) |-> ToLower(s[i])]

\* str::contains
Contains(s, pat) ==
    \E i \in 1..(Len(s) - Len(pat) + 1) : SubSeq(s, i, i + Len(pat) - 1) = pat

\* Path::file_name: what follows the last separator
file_name(path) ==
    LET seps == {i \in 1..Len(path) : path[i] = "/"}
        last == IF seps = {} THEN 0 ELSE CHOOSE i \in seps : \A j \in seps : j <= i
    IN SubSeq(path, last + 1, Len(path))

generated_patterns ==
    << <<"_", "p", "b", "2", ".", "p", "y">>,
       <<"_", "p", "b", "2", "_", "g", "r", "p", "c", ".", "p", "y">>,
       <<".", "g", "e", "n", "e", "r", "a", "t", "e", "d", ".">>,
       <<"_", "g", "e", "n", "e", "r", "a", "t", "e", "d", ".">>,
       <<".", "p", "b", ".", "g", "o">>,
       <<".", "g", ".", "d", "a", "r", "t">>,
       <<"g", "e", "n", "e", "r", "a", "t", "e", "d">>,
       <<".", "g", "e", "n", ".">> >>

is_generated_file(path) ==
    LET path_str == to_lowercase(path)
        filename == to_lowercase(file_name(path))
    IN \E k \in 1..Len(generated_patterns) :
          \/ Contains(path_str, generated_patterns[k])
          \/ Contains(filename, generated_patterns[k])

\* the bytes of a file: 0 is the null byte, 1 any other byte
Bytes == {0, 1}
FileBytes == UNION {[1..n -> Bytes] : n \in 0..MaxFileBytes}

\* what the file system holds at a path: nothing, or a file that can be
\* opened and read or cannot
NoFile == [exists |-> FALSE, readable |-> FALSE, bytes |-> <<>>]
Files ==
    {NoFile} \cup
    {[exists |-> TRUE, readable |-> r, bytes |-> b] :
        r \in BOOLEAN, b \in FileBytes}

\* a binary check that looks for a null byte in the whole file
is_binary_file_whole_file(f) ==
    IF ~f.readable THEN "error"
    ELSE IF \E i \in 1..Len(f.bytes) : f.bytes[i] = 0 THEN "true" ELSE "false"

\* is_binary_file: a null byte among the first BufLen bytes (1024 in the
\* code); "error" when the open or the read fails
is_binary_file(f) ==
    IF ~f.readable THEN "error"
    ELSE LET bytes_read == IF Len(f.bytes) < BufLen THEN Len(f.bytes) ELSE BufLen
         IN IF \E i \in 1..bytes_read : f.bytes[i] = 0 THEN "true" ELSE "false"

\* GlobSet::is_match; a glob set is given by the paths it matches
is_match(globset, path) == path \in globset

\* the checkers from_config can build
Checkers ==
    [global_globset : SUBSET Paths,
     lint_globset : SUBSET Paths,
     test_globset : SUBSET Paths,
     skip_binary_files : BOOLEAN,
     skip_generated_files : BOOLEAN,
     max_file_size_bytes : 1..MaxFileBytes]

\* Any looking at the lint patterns only
context_match_any_without_test(c, path, context) ==
    CASE context = "Any" -> is_match(c.lint_globset, path)
      [] context = "Lint" -> is_match(c.lint_globset, path)
      [] context = "Test" -> is_match(c.test_globset, path)

\* should_exclude_context: the match on the context's patterns
context_match(c, path, context) ==
    CASE context = "Any" ->
            is_match(c.lint_globset, path) \/ is_match(c.test_globset, path)
      [] context = "Lint" -> is_match(c.lint_globset, path)
      [] context = "Test" -> is_match(c.test_globset, path)

\* the generated-file rule, which needs the name only, applied to paths that
\* do not exist too
file_rules_marker_without_file(c, path, f) ==
    IF f.exists /\ Len(f.bytes) > c.max_file_size_bytes THEN "true"
    ELSE IF f.exists /\ c.skip_binary_files /\ is_binary_file(f) = "error"
         THEN "error"
    ELSE IF f.exists /\ c.skip_binary_files /\ is_binary_file(f) = "true"
         THEN "true"
    ELSE IF c.skip_generated_files /\ is_generated_file(path) THEN "true"
    ELSE "false"

\* should_exclude_context: the file-based rules
file_rules(c, path, f) ==
    IF ~f.exists THEN "false"
    ELSE IF Len(f.bytes) > c.max_file_size_bytes THEN "true"
    ELSE IF c.skip_binary_files /\ is_binary_file(f) = "error" THEN "error"
    ELSE IF c.skip_binary_files /\ is_binary_file(f) = "true" THEN "true"
    ELSE IF c.skip_generated_files /\ is_generated_file(path) THEN "true"
    ELSE "false"

\* the global matcher left out: only the context's patterns and the file
should_exclude_context_without_global(c, path, f, context) ==
    IF context_match(c, path, context) THEN "true"
    ELSE file_rules(c, path, f)

\* should_exclude_context of checker c for `path`, the file system holding
\* f there: "true", "false" or "error"
should_exclude_context(c, path, f, context) ==
    IF is_match(c.global_globset, path) THEN "true"
    ELSE IF context_match(c, path, context) THEN "true"
    ELSE file_rules(c, path, f)

\* the matchers that should_exclude_context consults for a context, up to
\* the first that matches (`||` stops at a match)
matchers_consulted(c, path, context) ==
    CASE context = "Any" ->
            IF is_match(c.lint_globset, path) THEN <<"lint_globset">>
            ELSE <<"lint_globset", "test_globset">>
      [] context = "Lint" -> <<"lint_globset">>
      [] context = "Test" -> <<"test_globset">>

\* the file system calls of the file-based rules: exists, metadata, and the
\* open and read of is_binary_file; is_generated_file looks at the path only
file_accesses(c, f) ==
    IF ~f.exists THEN <<"exists">>
    ELSE IF Len(f.bytes) > c.max_file_size_bytes THEN <<"exists", "metadata">>
    ELSE IF ~c.skip_binary_files THEN <<"exists", "metadata">>
    ELSE IF ~f.readable THEN <<"exists", "metadata", "open">>
    ELSE <<"exists", "metadata", "open", "read">>

\* a check that looks at the file before it looks at the patterns
context_accesses_file_first(c, path, f, context) ==
    file_accesses(c, f) \o <<"global_globset">>
    \o (IF is_match(c.global_globset, path) THEN <<>>
        ELSE matchers_consulted(c, path, context))

\* what should_exclude_context consults and accesses, in order
context_accesses(c, path, f, context) ==
    <<"global_globset">>
    \o (IF is_match(c.global_globset, path) THEN <<>>
        ELSE matchers_consulted(c, path, context)
             \o (IF context_match(c, path, context) THEN <<>>
                 ELSE file_accesses(c, f)))

should_exclude == should_exclude_context(checker, file_path, file, "Any")
should_exclude_lint == should_exclude_context(checker, file_path, file, "Lint")
should_exclude_test == should_exclude_context(checker, file_path, file, "Test")

\* ------------------------------------------ GuardrailsChecker (calls)
\* a checker that switches its binary rule off once it has answered
should_exclude_call_dropping_rule(context) ==
    /\ verdict' = [verdict EXCEPT ![context] =
                      should_exclude_context(checker, file_path, file, context)]
    /\ accesses' = [accesses EXCEPT ![context] =
                       context_accesses(checker, file_path, file, context)]
    /\ checker' = [checker EXCEPT !.skip_binary_files = FALSE]
    /\ UNCHANGED <<file_path, file>>
    /\ UNCHANGED outside_exclusion

\* a caller asks for the verdict in one context
should_exclude_call(context) ==
    /\ verdict' = [verdict EXCEPT ![context] =
                      should_exclude_context(checker, file_path, file, context)]
    /\ accesses' = [accesses EXCEPT ![context] =
                       context_accesses(checker, file_path, file, context)]
    /\ UNCHANGED <<checker, file_path, file>>
    /\ UNCHANGED outside_exclusion

\* the file is edited, created or removed: verdicts given before are about
\* another file
Touch(f) ==
    /\ f # file
    /\ file' = f
    /\ verdict' = [k \in Contexts |-> "none"]
    /\ accesses' = [k \in Contexts |-> <<>>]
    /\ UNCHANGED <<checker, file_path>>
    /\ UNCHANGED outside_exclusion

\* the exclusion engine at rest: the checker of an empty configuration
ExclusionIdle ==
    /\ checker = [global_globset |-> {}, lint_globset |-> {},
                  test_globset |-> {}, skip_binary_files |-> TRUE,
                  skip_generated_files |-> TRUE,
                  max_file_size_bytes |-> MaxFileBytes]
    /\ file_path = PathPlain
    /\ file = NoFile
    /\ verdict = [k \in Contexts |-> "none"]
    /\ accesses = [k \in Contexts |-> <<>>]

\* ------------------------------------------------- AutomationResult
\* Option<T>
None == [some |-> FALSE, val |-> <<>>]
Some(v) == [some |-> TRUE, val |-> v]

\* message texts
MessageAlphabet == {"a", "b"}
Messages == UNION {[1..n -> MessageAlphabet] : n \in 0..MaxMsgLen}

NoAction == [variant |-> "NoAction", text |-> <<>>]
Skipped == [variant |-> "Skipped", text |-> <<>>]
Success(msg) == [variant |-> "Success", text |-> msg]
Failure(msg) == [variant |-> "Failure", text |-> msg]

\* the values of AutomationResult
AutomationResults ==
    {NoAction, Skipped} \cup {Success(m) : m \in Messages}
                        \cup {Failure(m) : m \in Messages}

\* the code taken from the text: 2 only when there is something to show
exit_code_by_text(r) == IF r.text = <<>> THEN 0 ELSE 2

\* AutomationResult::exit_code
exit_code(r) ==
    CASE r.variant \in {"NoAction", "Skipped"} -> 0
      [] r.variant \in {"Success", "Failure"} -> 2

\* a message for every variant, an empty one where there is no text
message_of_every_variant(r) == Some(r.text)

\* AutomationResult::message
message(r) ==
    CASE r.variant \in {"Success", "Failure"} -> Some(r.text)
      [] r.variant \in {"NoAction", "Skipped"} -> None

\* main, SmartLint / SmartTest arm: print the message if there is one, exit
\* with the result's code
smart_exit ==
    /\ ~exit_status.some
    /\ stderr_message' = message(automation_result)
    /\ exit_status' = Some(exit_code(automation_result))
    /\ UNCHANGED automation_result
    /\ UNCHANGED outside_exit

\* no hook has returned to main
ExitIdle ==
    /\ automation_result = NoAction
    /\ exit_status = None
    /\ stderr_message = None

\* ---------------------------------------- run_command_with_timeout
\* Time is counted in poll intervals (thread::sleep of 100 ms); steps other
\* than a sleep or a blocking read take no time.
PollInterval == 1

\* Duration::from_secs(timeout_seconds), in poll intervals
Timeouts == {t * PollsPerSecond : t \in 0..MaxTimeoutSeconds}

\* the clock of the model stops here
MaxElapsed == MaxTimeoutSeconds * PollsPerSecond + MaxOverrun

\* the stderr of a timed-out command
TimedOutText == <<"Command timed out">>

\* what a child may have written to its pipes when it ends; a text is a
\* sequence of pieces, each a whitespace character or a run of other text
ChildStdouts == {<<>>, <<"out">>}
ChildStderrs == {<<>>, <<"err">>, TimedOutText}

\* ExitStatus: exit code 0, exit code 1, or ended by a signal
Statuses == {"exit0", "exit1", "signal"}
status_success_unless_signalled(st) == st # "signal"
status_success(st) == st = "exit0"

NoChild ==
    [state |-> "none", status |-> "none", stdout |-> <<>>, stderr |-> <<>>,
     pipes_held |-> FALSE, exited_at |-> 0]

\* Result<CommandOutput>
NoOutput ==
    [kind |-> "none", success |-> FALSE, stdout |-> <<>>, stderr |-> <<>>]
ErrOutput ==
    [kind |-> "Err", success |-> FALSE, stdout |-> <<>>, stderr |-> <<>>]
CommandOutput(ok, out, err) ==
    [kind |-> "Ok", success |-> ok, stdout |-> out, stderr |-> err]

\* cmd.spawn(): the child runs, or the spawn fails and the error is returned
spawn(ok) ==
    /\ cmd_pc = "spawn"
    /\ IF ok
       THEN /\ child' = [NoChild EXCEPT !.state = "running"]
            /\ cmd_pc' = "try_wait"
            /\ UNCHANGED cmd_output
       ELSE /\ cmd_output' = ErrOutput
            /\ cmd_pc' = "returned"
            /\ UNCHANGED child
    /\ UNCHANGED <<timeout, elapsed, timed_out>>
    /\ UNCHANGED outside_command

\* wait_with_timeout, one turn of the loop up to the sleep: try_wait reaps a
\* child that has ended; otherwise the elapsed time is compared
try_wait ==
    /\ cmd_pc = "try_wait"
    /\ IF child.state = "zombie"
       THEN /\ child' = [child EXCEPT !.state = "reaped"]
            /\ cmd_pc' = "wait_with_output"
            /\ UNCHANGED timed_out
       ELSE IF elapsed >= timeout
       THEN /\ timed_out' = TRUE
            /\ cmd_pc' = "kill"
            /\ UNCHANGED child
       ELSE /\ cmd_pc' = "sleep"
            /\ UNCHANGED <<child, timed_out>>
    /\ UNCHANGED <<timeout, elapsed, cmd_output>>
    /\ UNCHANGED outside_command

\* thread::sleep(Duration::from_millis(100))
sleep ==
    /\ cmd_pc = "sleep"
    /\ elapsed < MaxElapsed
    /\ elapsed' = elapsed + PollInterval
    /\ cmd_pc' = "try_wait"
    /\ UNCHANGED <<timeout, child, timed_out, cmd_output>>
    /\ UNCHANGED outside_command

\* the pipes are open as long as the child or a descendant holds them
pipes_open == child.state = "running" \/ child.pipes_held

\* child.wait_with_output(): reads both pipes to their end, which comes when
\* every holder has closed them, then returns the status and the output
wait_with_output ==
    /\ cmd_pc = "wait_with_output"
    /\ ~pipes_open
    /\ cmd_output' = CommandOutput(status_success(child.status),
                                   child.stdout, child.stderr)
    /\ cmd_pc' = "returned"
    /\ UNCHANGED <<timeout, elapsed, child, timed_out>>
    /\ UNCHANGED outside_command

\* time passes while wait_with_output is blocked in its read
blocked_read ==
    /\ cmd_pc = "wait_with_output"
    /\ pipes_open
    /\ elapsed < MaxElapsed
    /\ elapsed' = elapsed + PollInterval
    /\ UNCHANGED <<cmd_pc, timeout, child, timed_out, cmd_output>>
    /\ UNCHANGED outside_command

\* a timeout arm that returns the synthetic output and leaves the child
kill_and_wait_leaving_child ==
    /\ cmd_pc = "kill"
    /\ cmd_output' = CommandOutput(FALSE, <<>>, TimedOutText)
    /\ cmd_pc' = "returned"
    /\ UNCHANGED <<timeout, elapsed, child, timed_out>>
    /\ UNCHANGED outside_command

\* the timeout arm: child.kill(), child.wait(), the synthetic output; a
\* child that ended in the meantime is reaped all the same
kill_and_wait ==
    /\ cmd_pc = "kill"
    /\ child' = [child EXCEPT
                    !.state = "reaped",
                    !.status = IF child.state = "running" THEN "signal" ELSE @,
                    !.exited_at = IF child.state = "running" THEN elapsed ELSE @]
    /\ cmd_output' = CommandOutput(FALSE, <<>>, TimedOutText)
    /\ cmd_pc' = "returned"
    /\ UNCHANGED <<timeout, elapsed, timed_out>>
    /\ UNCHANGED outside_command

\* the child ends by itself, having written out and err; a process it
\* started may live on with the pipes it inherited
ChildExit(st, out, err, held) ==
    /\ child.state = "running"
    /\ child' = [state |-> "zombie", status |-> st, stdout |-> out,
                 stderr |-> err, pipes_held |-> held, exited_at |-> elapsed]
    /\ UNCHANGED <<cmd_pc, timeout, elapsed, timed_out, cmd_output>>
    /\ UNCHANGED outside_command

\* the last descendant that held the pipes ends
DescendantExit ==
    /\ child.state # "running"
    /\ child.pipes_held
    /\ child' = [child EXCEPT !.pipes_held = FALSE]
    /\ UNCHANGED <<cmd_pc, timeout, elapsed, timed_out, cmd_output>>
    /\ UNCHANGED outside_command

\* no command is being run
CommandIdle ==
    /\ cmd_pc = "idle"
    /\ timeout = 0
    /\ elapsed = 0
    /\ child = NoChild
    /\ timed_out = FALSE
    /\ cmd_output = NoOutput

\* ------------------------------- handle_smart_lint / handle_smart_test
\* The invocation whose handler is followed step by step, and the other one.
HookProc == 9
Competitor == 10

Operations == {"lint", "test"}
Configs == [lint_enabled : BOOLEAN, test_enabled : BOOLEAN]

\* a path with another extension than py
PathNotebook == <<"n", ".", "i", "p", "y", "n", "b">>

EventNames == {"PostToolUse", "PreToolUse"}
ToolNames == {"Edit", "MultiEdit", "Write", "NotebookEdit", "Read"}

\* HookInput, and the input that from_stdin rejects (empty, or not the JSON
\* of a HookInput)
NoHookInput ==
    [valid |-> FALSE, hook_event_name |-> "", tool_name |-> "",
     tool_input |-> [file_path |-> None, notebook_path |-> None]]
HookInputs ==
    {NoHookInput} \cup
    [valid : {TRUE}, hook_event_name : EventNames, tool_name : ToolNames,
     tool_input : [file_path : {None, Some(PathPlain)},
                   notebook_path : {None, Some(PathNotebook)}]]

is_edit_tool_or_read(h) ==
    h.tool_name \in {"Edit", "MultiEdit", "Write", "NotebookEdit", "Read"}
is_edit_tool(h) ==
    h.tool_name \in {"Edit", "MultiEdit", "Write", "NotebookEdit"}

should_process(h) == h.hook_event_name = "PostToolUse" /\ is_edit_tool(h)

\* HookInput::file_path
input_file_path(h) ==
    IF h.tool_name = "NotebookEdit"
    THEN h.tool_input.notebook_path
    ELSE h.tool_input.file_path

\* config.lint_enabled / config.test_enabled
enabled == IF operation = "lint" THEN config.lint_enabled ELSE config.test_enabled

\* the context of should_exclude_lint / should_exclude_test
OperationContext == IF operation = "lint" THEN "Lint" ELSE "Test"

\* source_file.extension() == Some("py")
extension_is_py(path) ==
    /\ Len(path) >= 4
    /\ SubSeq(path, Len(path) - 2, Len(path)) = <<".", "p", "y">>

\* the handler returns r before it has called try_acquire
HookReturn(p, r) ==
    /\ Return(p, r)
    /\ UNCHANGED <<lock_exists, lock_file, now, acquires, releases, stale_view>>

\* the handler goes on to its next statement
HookGoto(p, label) ==
    /\ Goto(p, label)
    /\ UNCHANGED <<lock_exists, lock_file, now, lock_content, acquires,
                   releases, stale_view>>

\* if !self.config.lint_enabled { return Ok(NoAction) }
handle_enabled(p) ==
    /\ pc[p] = "enabled"
    /\ IF enabled THEN HookGoto(p, "from_stdin") ELSE HookReturn(p, "NoAction")
    /\ UNCHANGED <<exclusion_vars, hook_vars>>
    /\ UNCHANGED outside_hook

\* HookInput::from_stdin(): an error gives NoAction
handle_from_stdin(p) ==
    /\ pc[p] = "from_stdin"
    /\ IF hook_input.valid
       THEN HookGoto(p, "should_process")
       ELSE HookReturn(p, "NoAction")
    /\ UNCHANGED <<exclusion_vars, hook_vars>>
    /\ UNCHANGED outside_hook

\* if !hook_input.should_process() { return Ok(NoAction) }
handle_should_process(p) ==
    /\ pc[p] = "should_process"
    /\ IF should_process(hook_input)
       THEN HookGoto(p, "file_path")
       ELSE HookReturn(p, "NoAction")
    /\ UNCHANGED <<exclusion_vars, hook_vars>>
    /\ UNCHANGED outside_hook

\* hook_input.file_path(): None gives NoAction
handle_file_path(p) ==
    /\ pc[p] = "file_path"
    /\ IF input_file_path(hook_input).some
       THEN /\ file_path' = input_file_path(hook_input).val
            /\ HookGoto(p, "exists")
       ELSE /\ HookReturn(p, "NoAction")
            /\ UNCHANGED file_path
    /\ UNCHANGED <<checker, file, verdict, accesses, hook_vars>>
    /\ UNCHANGED outside_hook

\* an existence check that goes on to the discovery of the project
handle_exists_then_discover(p) ==
    /\ pc[p] = "exists"
    /\ IF file.exists
       THEN HookGoto(p, "discover")
       ELSE HookReturn(p, "NoAction")
    /\ UNCHANGED <<exclusion_vars, hook_vars>>
    /\ UNCHANGED outside_hook

\* if !file_path.exists() { return Ok(NoAction) }
handle_exists(p) ==
    /\ pc[p] = "exists"
    /\ IF file.exists
       THEN HookGoto(p, "should_exclude")
       ELSE HookReturn(p, "NoAction")
    /\ UNCHANGED <<exclusion_vars, hook_vars>>
    /\ UNCHANGED outside_hook

\* if self.checker.should_exclude_lint(&file_path)? { return Ok(NoAction) }
handle_should_exclude(p) ==
    /\ pc[p] = "should_exclude"
    /\ LET v == should_exclude_context(checker, file_path, file,
                                       OperationContext)
       IN  /\ verdict' = [verdict EXCEPT ![OperationContext] = v]
           /\ accesses' = [accesses EXCEPT ![OperationContext] =
                              context_accesses(checker, file_path, file,
                                               OperationContext)]
           /\ CASE v = "true" -> HookReturn(p, "NoAction")
                [] v = "error" -> HookReturn(p, "Error")
                [] OTHER -> HookGoto(p, "discover")
    /\ UNCHANGED <<checker, file_path, file, hook_vars>>
    /\ UNCHANGED outside_hook

\* PythonProject::discover(&file_dir)?: fails when the directory is
\* relative and the current directory cannot be resolved; after it the
\* handler calls LockGuard::try_acquire
handle_discover(p, ok) ==
    /\ pc[p] = "discover"
    /\ IF ok THEN HookGoto(p, "start") ELSE HookReturn(p, "Error")
    /\ UNCHANGED <<exclusion_vars, hook_vars>>
    /\ UNCHANGED outside_hook

\* What the AI collaborator did in a run: it is enabled and was not called,
\* it is disabled (no CEREBRAS_API_KEY), its API call failed, or the API gave
\* an analysis.
\* LintAnalysis and TestFailureAnalysis share one record here.
AiResult(call, real, filtered, why, sum, failed, coverage) ==
    [call |-> call, has_real_issues |-> real, filtered_output |-> filtered,
     reasoning |-> why, summary |-> sum, failed_tests |-> failed,
     coverage_analysis |-> coverage]
NoAi == AiResult("none", FALSE, <<>>, <<>>, <<>>, <<>>, <<>>)
AiDisabled == AiResult("disabled", FALSE, <<>>, <<>>, <<>>, <<>>, <<>>)
AiApiError == AiResult("api_error", FALSE, <<>>, <<>>, <<>>, <<>>, <<>>)
AiUnavailable == {AiDisabled, AiApiError}
LintAnalyses ==
    {AiResult("ok", real, filtered, why, <<>>, <<>>, <<>>) :
        real \in BOOLEAN, filtered \in {<<>>, <<"issue">>},
        why \in {<<>>, <<"style">>}}
TestAnalyses ==
    {AiResult("ok", TRUE, <<>>, <<>>, <<"summary">>, failed, coverage) :
        failed \in {<<>>, <<"test_x">>},
        coverage \in {<<>>, <<"edge case">>}}
AiOutcomes == {NoAi} \cup AiUnavailable \cup LintAnalyses \cup TestAnalyses

\* basic_lint_analysis: every line of the output is an issue
basic_lint_analysis(output) ==
    AiResult("basic", Trim(output) # <<>>, output,
             <<"Basic analysis without AI - showing all linter output">>,
             <<>>, <<>>, <<>>)

\* analyze_lint_output: never an error; the basic analysis stands in for a
\* disabled collaborator and for a failed API call
analyze_lint_output(ai, output) ==
    IF ai \in AiUnavailable THEN basic_lint_analysis(output) ELSE ai

\* basic_test_failure_analysis
basic_test_failure_analysis(output) ==
    AiResult("basic", Contains(output, <<"FAILED">>), <<>>, <<>>,
             IF Contains(output, <<"FAILED">>)
             THEN <<"Test failures detected">>
             ELSE <<"No clear test failures detected">>,
             <<>>, <<"AI analysis not available.">>)

\* analyze_test_output: never an error either
analyze_test_output(ai, output) ==
    IF ai \in AiUnavailable THEN basic_test_failure_analysis(output) ELSE ai

\* what the check or the test run may return: an error of the spawn, or an
\* output with or without text, with blank text, with text inside blanks
ToolOutputs ==
    {ErrOutput, CommandOutput(TRUE, <<"out">>, <<>>),
     CommandOutput(FALSE, <<"out">>, <<"err">>),
     CommandOutput(FALSE, <<>>, <<>>),
     CommandOutput(FALSE, <<LF>>, <<>>),
     CommandOutput(FALSE, <<SP, "out", LF>>, <<>>),
     CommandOutput(FALSE, <<>>, TimedOutText)}

\* stdout and stderr joined by a newline, stdout alone when stderr is empty
combined_output(o) ==
    IF o.stderr # <<>> THEN o.stdout \o <<LF>> \o o.stderr ELSE o.stdout

\* combined_output.trim().is_empty()
combined_is_empty(o) == Trim(combined_output(o)) = <<>>

LintRuns ==
    {t \in [linter : BOOLEAN, formatter : BOOLEAN, autofix : BOOLEAN,
            tester : {FALSE}, test_file : {FALSE},
            format_spawned : BOOLEAN, fix_spawned : BOOLEAN,
            output : ToolOutputs \cup {NoOutput},
            ai : {NoAi} \cup AiUnavailable \cup LintAnalyses] :
        LET py == extension_is_py(file_path)
            started == t.linter /\ py
            formatted == started /\ (t.formatter => t.format_spawned)
            fixed == formatted /\ (t.autofix => t.fix_spawned)
            analysed == /\ fixed /\ t.output.kind = "Ok" /\ ~t.output.success
                        /\ ~combined_is_empty(t.output)
        IN  /\ ~t.linter => ~t.formatter /\ ~t.autofix
            /\ t.format_spawned => started /\ t.formatter
            /\ t.fix_spawned => formatted /\ t.autofix
            /\ (t.output # NoOutput) <=> fixed
            /\ analysed => t.ai # NoAi
            /\ ~analysed => t.ai \in {NoAi, AiDisabled}}

TestRuns ==
    {t \in [linter : {FALSE}, formatter : {FALSE}, autofix : {FALSE},
            tester : BOOLEAN, test_file : BOOLEAN,
            format_spawned : {FALSE}, fix_spawned : {FALSE},
            output : ToolOutputs \cup {NoOutput},
            ai : {NoAi} \cup AiUnavailable \cup TestAnalyses] :
        LET py == extension_is_py(file_path)
            started == t.tester /\ py /\ t.test_file
        IN  /\ t.test_file => t.tester /\ py
            /\ (t.output # NoOutput) <=> started
            /\ started /\ t.output.kind = "Ok" => t.ai # NoAi
            /\ ~(started /\ t.output.kind = "Ok") =>
                  t.ai \in {NoAi, AiDisabled}}

\* run_lint_command: the variant it returns, or "Error"
run_lint_command_escalating_ai(t, path) ==
    IF t.ai \in AiUnavailable THEN "Error" ELSE "Failure"
run_lint_command(t, path) ==
    IF ~t.linter THEN "NoAction"
    ELSE IF ~extension_is_py(path) THEN "NoAction"
    ELSE IF t.formatter /\ ~t.format_spawned THEN "Error"
    ELSE IF t.autofix /\ ~t.fix_spawned THEN "Error"
    ELSE IF t.output.kind = "Err" THEN "Error"
    ELSE IF t.output.success THEN "Success"
    ELSE IF combined_is_empty(t.output) THEN "Failure"
    ELSE IF ~analyze_lint_output(t.ai, combined_output(t.output)).has_real_issues
    THEN "Success"
    ELSE "Failure"

\* the text of the Success or Failure that run_lint_command returns
lint_message_without_output(t) == <<"Lint check failed">>
lint_message(t) ==
    LET analysis == analyze_lint_output(t.ai, combined_output(t.output))
    IN  IF t.output.success
        THEN CASE t.formatter /\ t.autofix ->
                    <<"Formatted, auto-fixed, and verified.">>
               [] t.formatter /\ ~t.autofix ->
                    <<"Formatted and lints verified.">>
               [] ~t.formatter /\ t.autofix ->
                    <<"Auto-fixed lint issues and verified.">>
               [] OTHER -> <<"Lints pass.">>
        ELSE IF combined_is_empty(t.output) THEN <<"Lint check failed">>
        ELSE IF analysis.has_real_issues
        THEN <<"LINT ISSUES FOUND:", LF, LF>>
             \o (IF Trim(analysis.filtered_output) # <<>>
                 THEN analysis.filtered_output \o <<LF, LF>> ELSE <<>>)
             \o (IF Trim(analysis.reasoning) # <<>>
                 THEN <<"Analysis:", LF>> \o analysis.reasoning
                      \o (IF Contains(analysis.reasoning, <<"style">>)
                          THEN <<LF, LF, "Note: style preferences">>
                          ELSE <<>>)
                 ELSE <<>>)
        ELSE <<"LINT ISSUES FOUND:", LF, LF, "AI Analysis Result:", LF>>
             \o analysis.reasoning
             \o <<LF, LF, "Linter appears overzealous.">>

\* run_test_command: the variant it returns, or "Error"
run_test_command(t, path) ==
    IF ~t.tester THEN "NoAction"
    ELSE IF ~extension_is_py(path) THEN "NoAction"
    ELSE IF ~t.test_file THEN "Success"
    ELSE IF t.output.kind = "Err" THEN "Error"
    ELSE IF t.output.success THEN "Success"
    ELSE "Failure"

\* the text of the Success or Failure that run_test_command returns
test_message(t) ==
    LET analysis == analyze_test_output(t.ai, combined_output(t.output))
        coverage ==
            IF analysis.coverage_analysis # <<>>
            THEN <<"Coverage:">> \o analysis.coverage_analysis \o <<LF>>
            ELSE <<>>
    IN  IF ~t.test_file THEN <<"No tests found">>
        ELSE IF t.output.success
        THEN <<"Tests pass!", LF, LF>> \o coverage
             \o (IF Contains(analysis.coverage_analysis, <<"edge case">>)
                 THEN <<"STRONGLY CONSIDER", LF, LF>> ELSE <<>>)
             \o <<"Continue with your task.">>
        ELSE <<"TESTS FAILED:", LF, LF, "Analysis:">> \o analysis.summary
             \o <<LF, LF>>
             \o (IF analysis.failed_tests # <<>>
                 THEN <<"Failed Tests:", LF>> \o analysis.failed_tests
                      \o <<LF, LF>>
                 ELSE <<>>)
             \o (IF coverage # <<>> THEN coverage \o <<LF>> ELSE <<>>)
             \o <<"Full Output:", LF>> \o Trim(combined_output(t.output))
             \o <<LF, LF, "Must fix all test failures before continuing">>

run_command(t, path) ==
    IF operation = "lint" THEN run_lint_command(t, path)
    ELSE run_test_command(t, path)

run_message(t) ==
    IF operation = "lint" THEN lint_message(t) ELSE test_message(t)

\* with the guard held, the tools run
handle_run(p) ==
    /\ pc[p] = "run"
    /\ ~tool_run.some
    /\ \E t \in (IF operation = "lint" THEN LintRuns ELSE TestRuns) :
          tool_run' = Some(t)
    /\ UNCHANGED <<config, operation, hook_input>>
    /\ UNCHANGED <<lock_vars, exclusion_vars>>
    /\ UNCHANGED outside_hook

\* the handler returns what the tools' run gave, and the guard is dropped
handle_return(p, o) ==
    /\ tool_run.some
    /\ drop(p, o, run_command(tool_run.val, file_path))

\* the AutomationResult that main receives from a handler that returned Ok
AutomationResultOf(p) ==
    CASE result[p] = "Success" -> Success(run_message(tool_run.val))
      [] result[p] = "Failure" -> Failure(run_message(tool_run.val))
      [] result[p] = "Skipped" -> Skipped
      [] OTHER -> NoAction

\* what main prints for an error it returns
ErrorText == <<"Error">>

\* main, Commands::SmartLint / SmartTest: an error of the handler leaves
\* main by `?` (message on stderr, exit code 1); a result is printed if it
\* has a message and the process exits with its exit code
smart_main(p) ==
    /\ pc[p] = "done"
    /\ ~exit_status.some
    /\ IF result[p] = "Error"
       THEN /\ stderr_message' = Some(ErrorText)
            /\ exit_status' = Some(1)
            /\ UNCHANGED automation_result
       ELSE /\ automation_result' = AutomationResultOf(p)
            /\ stderr_message' = message(AutomationResultOf(p))
            /\ exit_status' = Some(exit_code(AutomationResultOf(p)))
    /\ UNCHANGED <<lock_vars, exclusion_vars, command_vars, hook_vars, cli_vars,
                   name_vars>>

\* no handler is followed
HookIdle ==
    /\ config = [lint_enabled |-> TRUE, test_enabled |-> TRUE]
    /\ operation = "lint"
    /\ hook_input = NoHookInput
    /\ tool_run = None

\* ------------------------------------------- GuardrailsChecker (construction)
\* Scaling: the factor 1024 between the units of a size is modelled by Kilo,
\* so that sizes stay within the IntBits bits of a u64.
Kilo == 2

\* char::to_uppercase on the letters in use
ToUpper(ch) ==
    CASE ch = "k" -> "K"
      [] ch = "m" -> "M"
      [] ch = "g" -> "G"
      [] ch = "b" -> "B"
      [] ch = "n" -> "N"
      [] ch = "a" -> "A"
      [] ch = "i" -> "I"
      [] ch = "f" -> "F"
      [] ch = "e" -> "E"
      [] ch = "x" -> "X"
      [] OTHER -> ch

to_uppercase(s) == [i \in 1..Len(s) |-> ToUpper(s[i])]

\* str::strip_suffix
ends_with(s, suffix) ==
    /\ Len(s) >= Len(suffix)
    /\ SubSeq(s, Len(s) - Len(suffix) + 1, Len(s)) = suffix
strip_suffix(s, suffix) == SubSeq(s, 1, Len(s) - Len(suffix))

\* str::parse::<u64>: an optional "+", then digits; no "-"; at most u64::MAX
ParseU64(s) ==
    LET body == IF s # <<>> /\ Head(s) = "+" THEN Tail(s) ELSE s
        m == Magnitude(body)
    IN IF m < 0 \/ m > U64Max THEN Err ELSE Ok(m)

\* an f64: not a number, an infinity, or the finite value num / den; neg is
\* its sign
F64Err == [ok |-> FALSE, class |-> "finite", neg |-> FALSE, num |-> 0, den |-> 1]
F64(class, neg, num, den) ==
    [ok |-> TRUE, class |-> class, neg |-> neg, num |-> num, den |-> den]

\* the first position of s that holds a character of set, 0 when none does
IndexOf(s, set) ==
    LET at == {i \in 1..Len(s) : s[i] \in set}
    IN IF at = {} THEN 0 ELSE CHOOSE i \in at : \A j \in at : i <= j

AllDigits(s) == \A i \in 1..Len(s) : s[i] \in DigitSet

\* 10^n
RECURSIVE Pow10(_)
Pow10(n) == IF n = 0 THEN 1 ELSE 10 * Pow10(n - 1)

\* the decimal form of an f64: digits with an optional point and at least
\* one digit, then an optional exponent (e or E, optional sign, digits)
ParseDecimal(s, neg) ==
    LET e == IndexOf(s, {"e", "E"})
        mantissa == IF e = 0 THEN s ELSE SubSeq(s, 1, e - 1)
        exponent == IF e = 0 THEN <<>> ELSE SubSeq(s, e + 1, Len(s))
        exp_neg == exponent # <<>> /\ Head(exponent) = "-"
        exp_digits ==
            IF exponent # <<>> /\ Head(exponent) \in {"+", "-"}
            THEN Tail(exponent) ELSE exponent
        point == IndexOf(mantissa, {"."})
        whole == IF point = 0 THEN mantissa ELSE SubSeq(mantissa, 1, point - 1)
        fraction ==
            IF point = 0 THEN <<>>
            ELSE SubSeq(mantissa, point + 1, Len(mantissa))
        scale == IF exp_digits = <<>> THEN 0 ELSE DigitsValue(exp_digits, 0)
    IN  IF \/ ~AllDigits(whole) \/ ~AllDigits(fraction)
           \/ whole \o fraction = <<>>
           \/ e # 0 /\ (exp_digits = <<>> \/ ~AllDigits(exp_digits))
        THEN F64Err
        ELSE F64("finite", neg,
                 DigitsValue(whole \o fraction, 0)
                    * (IF exp_neg THEN 1 ELSE Pow10(scale)),
                 Pow10(Len(fraction)) * (IF exp_neg THEN Pow10(scale) ELSE 1))

\* str::parse::<f64>: an optional sign, then "inf", "infinity" or "nan" in
\* any case, or a decimal number
ParseF64(s) ==
    LET neg == s # <<>> /\ Head(s) = "-"
        body == IF s # <<>> /\ Head(s) \in {"+", "-"} THEN Tail(s) ELSE s
    IN  IF to_uppercase(body) \in {<<"I", "N", "F">>,
                                   <<"I", "N", "F", "I", "N", "I", "T", "Y">>}
        THEN F64("inf", neg, 0, 1)
        ELSE IF to_uppercase(body) = <<"N", "A", "N">>
        THEN F64("nan", neg, 0, 1)
        ELSE ParseDecimal(body, neg)

\* (num * unit) as u64: the cast saturates, and gives 0 for NaN
MulAsU64(x, unit) ==
    CASE x.class = "nan" -> 0
      [] x.class = "inf" -> IF x.neg THEN 0 ELSE U64Max
      [] OTHER ->
            IF x.neg THEN 0
            ELSE IF (x.num * unit) \div x.den > U64Max THEN U64Max
            ELSE (x.num * unit) \div x.den

\* the size of a number with a unit
unit_size(num_str, unit) ==
    IF ParseF64(num_str).ok THEN Ok(MulAsU64(ParseF64(num_str), unit)) ELSE Err

\* parse_file_size
parse_file_size(size_str) ==
    LET s == to_uppercase(Trim(size_str))
    IN  IF ends_with(s, <<"K", "B">>)
        THEN unit_size(strip_suffix(s, <<"K", "B">>), Kilo)
        ELSE IF ends_with(s, <<"M", "B">>)
        THEN unit_size(strip_suffix(s, <<"M", "B">>), Kilo * Kilo)
        ELSE IF ends_with(s, <<"G", "B">>)
        THEN unit_size(strip_suffix(s, <<"G", "B">>), Kilo * Kilo * Kilo)
        ELSE ParseU64(s)

\* glob patterns: one that matches every .py file, one that matches the
\* plain path only, and one whose character class is not closed
PatternPy == <<"*", ".", "p", "y">>
PatternPlain == <<"m", ".", "p", "y">>
PatternUnclosed == <<"[", "m">>
Patterns == {PatternPy, PatternPlain, PatternUnclosed}

\* Glob::new gives an error for a class that is not closed
glob_new_ok(pattern) ==
    \A i \in 1..Len(pattern) :
        pattern[i] = "[" => \E j \in (i + 1)..Len(pattern) : pattern[j] = "]"

\* the match of a glob made of literal characters and "*"
RECURSIVE glob_match(_, _)
glob_match(pattern, path) ==
    IF pattern = <<>> THEN path = <<>>
    ELSE IF Head(pattern) = "*"
    THEN \/ glob_match(Tail(pattern), path)
         \/ path # <<>> /\ glob_match(pattern, Tail(path))
    ELSE /\ path # <<>>
         /\ Head(pattern) = Head(path)
         /\ glob_match(Tail(pattern), Tail(path))

\* every pattern of the list passes Glob::new
globs_ok(patterns) == \A k \in 1..Len(patterns) : glob_new_ok(patterns[k])

\* GlobSetBuilder::build: the paths one of the patterns matches
build_globset(patterns) ==
    {path \in Paths : \E k \in 1..Len(patterns) : glob_match(patterns[k], path)}

\* the texts of rules.max_file_size
SizeStrings ==
    {<<"1", "M", "B">>, <<SP, "1", "M", "B", SP>>, <<"1", "k", "b">>,
     <<"1", "G", "B">>, <<"2", "G", "B">>, <<"2">>, <<"+", "1">>,
     <<"1", ".", "5", "K", "B">>, <<"1", "e", "1", "K", "B">>,
     <<>>, <<"M", "B">>, <<"x">>, <<"1", "X", "B">>, <<"-", "1">>,
     <<"-", "1", "M", "B">>, <<"n", "a", "n", "K", "B">>,
     <<"i", "n", "f", "G", "B">>}

\* the lists of patterns of a configuration
PatternLists ==
    {<<>>, <<PatternPy>>, <<PatternPlain>>, <<PatternPlain, PatternUnclosed>>}
SkipLists == {<<>>, <<PatternPlain>>, <<PatternUnclosed>>}

\* GuardrailsConfig: exclude.patterns, exclude.python.lint_skip and
\* test_skip, rules.max_file_size and rules.skip_binary_files
GuardrailsConfigs ==
    [patterns : PatternLists, lint_skip : SkipLists,
     test_skip : SkipLists, max_file_size : SizeStrings,
     skip_binary_files : BOOLEAN]

\* a YAML text: one that is no YAML, one that lacks the exclude section, or
\* the text of a GuardrailsConfig
DefaultSize == <<"1", "M", "B">>
EmptyConfig ==
    [patterns |-> <<>>, lint_skip |-> <<>>, test_skip |-> <<>>,
     max_file_size |-> DefaultSize, skip_binary_files |-> TRUE]
YamlTexts ==
    {[kind |-> k, config |-> EmptyConfig] : k \in {"malformed", "no_exclude"}}
    \cup {[kind |-> "ok", config |-> c] : c \in GuardrailsConfigs}

\* Result<GuardrailsChecker>
ConfigErr(msg) == [ok |-> FALSE, error |-> msg, checker |-> None]
ConfigOk(c) == [ok |-> TRUE, error |-> "", checker |-> Some(c)]

\* GuardrailsChecker::from_config
from_config(cfg) ==
    IF ~globs_ok(cfg.patterns) THEN ConfigErr("Invalid glob pattern")
    ELSE IF ~globs_ok(cfg.lint_skip) THEN ConfigErr("Invalid lint skip pattern")
    ELSE IF ~globs_ok(cfg.test_skip) THEN ConfigErr("Invalid test skip pattern")
    ELSE IF ~parse_file_size(cfg.max_file_size).ok
    THEN ConfigErr("Invalid file size")
    ELSE ConfigOk([global_globset |-> build_globset(cfg.patterns),
                   lint_globset |-> build_globset(cfg.lint_skip),
                   test_globset |-> build_globset(cfg.test_skip),
                   skip_binary_files |-> cfg.skip_binary_files,
                   skip_generated_files |-> TRUE,
                   max_file_size_bytes |->
                       parse_file_size(cfg.max_file_size).val])

\* GuardrailsChecker::from_yaml
from_yaml(yaml) ==
    IF yaml.kind # "ok"
    THEN ConfigErr("Failed to parse guardrails YAML config")
    ELSE from_config(yaml.config)

\* ------------------------------------------- main: check, lint and test
Commands == {"check", "lint", "test"}

\* the command line: the command, --verbose, and the text of the file that
\* --config names
CliInputs == [command : Commands, verbose : BOOLEAN, yaml : YamlTexts]

\* the context each command asks its verdict in
CommandContext(command) ==
    CASE command = "check" -> "Any"
      [] command = "lint" -> "Lint"
      [] command = "test" -> "Test"

\* the line a verbose command prints
verdict_line(command, excluded) ==
    CASE command = "check" ->
            IF excluded THEN <<"EXCLUDED">> ELSE <<"INCLUDED">>
      [] command = "lint" ->
            IF excluded THEN <<"EXCLUDED from linting">>
            ELSE <<"INCLUDED for linting">>
      [] command = "test" ->
            IF excluded THEN <<"EXCLUDED from testing">>
            ELSE <<"INCLUDED for testing">>

\* load_checker(&cli)?: the checker is built, or main returns the error
\* and the process exits with code 1
load_checker ==
    /\ ~built.some
    /\ ~exit_status.some
    /\ built' = Some(from_yaml(cli.yaml))
    /\ printed' = IF cli.verbose
                  THEN Append(printed, "Loading configuration from")
                  ELSE printed
    /\ IF from_yaml(cli.yaml).ok
       THEN /\ checker' = from_yaml(cli.yaml).checker.val
            /\ UNCHANGED <<exit_status, stderr_message>>
       ELSE /\ exit_status' = Some(1)
            /\ stderr_message' = Some(ErrorText)
            /\ UNCHANGED checker
    /\ UNCHANGED <<cli, file_path, file, verdict, accesses, automation_result>>
    /\ UNCHANGED outside_cli

\* an exit that reports an excluded file with code 2
main_verdict_exit_two(v) ==
    /\ printed' = IF cli.verbose
                  THEN printed \o verdict_line(cli.command, v = "true")
                  ELSE printed
    /\ exit_status' = Some(IF v = "true" THEN 2 ELSE 0)
    /\ UNCHANGED stderr_message

\* the verdict is printed when --verbose is given, and the process exits
\* with 1 for an excluded file and 0 for an included one
main_verdict(v) ==
    /\ printed' = IF cli.verbose
                  THEN printed \o verdict_line(cli.command, v = "true")
                  ELSE printed
    /\ exit_status' = Some(IF v = "true" THEN 1 ELSE 0)
    /\ UNCHANGED stderr_message

\* checker.should_exclude(file)? and its siblings, then the exit
main_check ==
    /\ built.some
    /\ ~exit_status.some
    /\ LET v == should_exclude_context(checker, file_path, file,
                                       CommandContext(cli.command))
       IN  /\ verdict' = [verdict EXCEPT ![CommandContext(cli.command)] = v]
           /\ accesses' = [accesses EXCEPT ![CommandContext(cli.command)] =
                              context_accesses(checker, file_path, file,
                                               CommandContext(cli.command))]
           /\ IF v = "error"
              THEN /\ exit_status' = Some(1)
                   /\ stderr_message' = Some(ErrorText)
                   /\ UNCHANGED printed
              ELSE main_verdict(v)
    /\ UNCHANGED <<cli, built, checker, file_path, file, automation_result>>
    /\ UNCHANGED outside_cli

\* no command line is followed
CliIdle ==
    /\ cli = [command |-> "check", verbose |-> FALSE,
              yaml |-> [kind |-> "ok", config |-> EmptyConfig]]
    /\ built = None
    /\ printed = <<>>

\* ------------------------------------------------- ProcessLock (naming)
\* Scaling: the 16 hexadecimal digits (64 bits) kept of the SHA-256 digest
\* are modelled by HashBits bits.
HashBits == 8

\* Workspace directories as the bytes of their paths; "xFE" and "xFF" stand
\* for bytes that are no UTF-8.  /l is a symbolic link to /w, /gone does
\* not exist.
WorkspaceW == <<"/", "w">>
WorkspaceV == <<"/", "v">>
WorkspaceLink == <<"/", "l">>
WorkspaceGone == <<"/", "g", "o", "n", "e">>
WorkspaceFE == <<"/", "xFE">>
WorkspaceFF == <<"/", "xFF">>
Workspaces ==
    {WorkspaceW, WorkspaceV, WorkspaceLink, WorkspaceGone, WorkspaceFE,
     WorkspaceFF}
InvalidUtf8 == {"xFE", "xFF"}

\* Path::canonicalize: the path with its links resolved, or an error
canonicalize(dir) ==
    CASE dir = WorkspaceGone -> None
      [] dir = WorkspaceLink -> Some(WorkspaceW)
      [] OTHER -> Some(dir)

\* Path::to_string_lossy: every byte sequence that is no UTF-8 becomes
\* U+FFFD
to_string_lossy(path) ==
    [i \in 1..Len(path) |->
        IF path[i] \in InvalidUtf8 THEN "U+FFFD" ELSE path[i]]

\* the number a character stands for in the digest
CharCodes ==
    <<"/", "w", "v", "l", "g", "o", "n", "e", "xFE", "xFF", "U+FFFD">>
CharCode(ch) == CHOOSE i \in 1..Len(CharCodes) : CharCodes[i] = ch

\* the digest of a text, cut to HashBits bits
RECURSIVE Digest(_, _)
Digest(s, acc) ==
    IF s = <<>> THEN acc
    ELSE Digest(Tail(s), (acc * 31 + CharCode(Head(s))) % 2^HashBits)

\* format!("{:x}", ..): the digits of the digest, most significant first
HexDigits ==
    <<"0", "1", "2", "3", "4", "5", "6", "7", "8", "9", "a", "b", "c", "d",
      "e", "f">>
RECURSIVE Hex(_, _)
Hex(n, width) ==
    IF width = 0 THEN <<>>
    ELSE Append(Hex(n \div 16, width - 1), HexDigits[(n % 16) + 1])

\* ProcessLock::hash_workspace
hash_workspace(dir) ==
    IF ~canonicalize(dir).some THEN None
    ELSE Some(Hex(Digest(to_string_lossy(canonicalize(dir).val), 0),
                  (HashBits + 3) \div 4))

\* ProcessLock::new: the path of the lock file
lock_file_name(dir, op) ==
    <<"/tmp/", "claude-python-guardrails-", op, "-">>
        \o hash_workspace(dir).val \o <<".lock">>

\* the keys of two invocations
LockKeys == [workspace_dir : Workspaces, operation : Operations]

\* the lock files in /tmp with the name `name`
FilesNamed(name) == {f \in tmp_dir : f.name = name}

\* LockGuard::try_acquire of invocation p on its key: an error when the
\* workspace cannot be resolved, None when the file names a live process,
\* else the PID is written and the guard is held
try_acquire(p) ==
    /\ try_acquired[p] = "none"
    /\ LET key == lock_keys[p]
           name == lock_file_name(key.workspace_dir, key.operation)
       IN  IF ~hash_workspace(key.workspace_dir).some
           THEN /\ try_acquired' = [try_acquired EXCEPT ![p] = "Err"]
                /\ UNCHANGED tmp_dir
           ELSE IF \E f \in FilesNamed(name) : pid_check(f.content)
           THEN /\ try_acquired' = [try_acquired EXCEPT ![p] = "None"]
                /\ UNCHANGED tmp_dir
           ELSE /\ try_acquired' = [try_acquired EXCEPT ![p] = "Some"]
                /\ tmp_dir' = (tmp_dir \ FilesNamed(name))
                              \cup {[name |-> name,
                                     content |-> acquire_content(p)]}
    /\ UNCHANGED lock_keys
    /\ UNCHANGED <<lock_vars, exclusion_vars, exit_vars, command_vars,
                   hook_vars, cli_vars>>

\* no key is looked at
NameIdle ==
    /\ lock_keys = [p \in Procs |->
                       [workspace_dir |-> WorkspaceW, operation |-> "lint"]]
    /\ tmp_dir = {}
    /\ try_acquired = [p \in Procs |-> "none"]

\* ------------------------------------------------ the tools under the guard
\* run_lint_command / run_test_command call run_command_with_timeout: for
\* the formatter, the auto-fix and the check, or for the test run; a call
\* starts when the one before it has returned a CommandOutput
run_tool ==
    /\ pc[HookProc] = "run"
    /\ cmd_pc \in {"idle", "returned"}
    /\ cmd_output.kind # "Err"
    /\ cmd_pc' = "spawn"
    /\ timeout' \in Timeouts
    /\ elapsed' = 0
    /\ child' = NoChild
    /\ timed_out' = FALSE
    /\ cmd_output' = NoOutput
    /\ UNCHANGED outside_command

\* run_lint_command / run_test_command returns r to the handler, which
\* returns it in turn: the guard is dropped.  An error of
\* run_command_with_timeout is passed on with `?`
tool_return(o, r) ==
    /\ cmd_pc \in {"idle", "returned"}
    /\ cmd_output.kind = "Err" => r = "Error"
    /\ drop(HookProc, o, r)

\* --------------------------------------------------- specifications
Idle ==
    /\ pc = [p \in Procs |-> "start"]
    /\ cooldown_seconds = [p \in Procs |-> 0]
    /\ lock_content = [p \in Procs |-> <<>>]
    /\ result = [p \in Procs |-> "none"]
    /\ acquires = [p \in Procs |-> 0]
    /\ releases = [p \in Procs |-> 0]
    /\ stale_view = FALSE

\* the tool never ran on this key: no lock file
Init ==
    /\ lock_exists = FALSE
    /\ lock_file = <<>>
    /\ now = 0
    /\ live = {}
    /\ Idle
    /\ ExclusionIdle
    /\ ExitIdle
    /\ CommandIdle
    /\ HookIdle
    /\ CliIdle
    /\ NameIdle

Environment ==
    \/ \E p \in Procs : Kill(p)
    \/ \E p \in Procs : PidReuse(p)
    \/ \E p \in Procs : ForeignExit(p)
    \/ Tick

ShouldSkipSteps ==
    \/ \E p \in Procs : Start(p)
    \/ \E p \in Procs : should_skip_read(p)
    \/ \E p \in Procs : should_skip_probe(p)
    \/ \E p \in Procs : should_skip_cooldown(p)

\* every write to the lock file succeeds
Next ==
    \/ ShouldSkipSteps
    \/ \E p \in Procs : acquire(p, "written")
    \/ \E p \in Procs, r \in RunOutcomes : drop(p, "written", r)
    \/ Environment

Spec == Init /\ [][Next]_vars

\* writes to the lock file may fail
NextFaults ==
    \/ ShouldSkipSteps
    \/ \E p \in Procs, o \in WriteOutcomes : acquire(p, o)
    \/ \E p \in Procs, o \in WriteOutcomes, r \in RunOutcomes : drop(p, o, r)
    \/ Environment

SpecFaults == Init /\ [][NextFaults]_vars

\* time advances and no run under the guard lasts for ever
FairSpec ==
    /\ Spec
    /\ WF_vars(Tick)
    /\ \A p \in Procs : WF_vars(\E r \in RunOutcomes : drop(p, "written", r))

\* One invocation meets a lock file of any content (the file lies in /tmp),
\* at any time, beside any unrelated processes.
FileAlphabet == {"1", "7", LF, CR, SP, "x", "+", "-"}
FileContents == UNION {[1..n -> FileAlphabet] : n \in 0..MaxFileLen}
FilePids == {1, 11}
FileProc == 9

InitFile ==
    /\ lock_exists = TRUE
    /\ lock_file \in FileContents
    /\ now \in 0..MaxTime
    /\ live \in SUBSET FilePids
    /\ Idle
    /\ ExclusionIdle
    /\ ExitIdle
    /\ CommandIdle
    /\ HookIdle
    /\ CliIdle
    /\ NameIdle

NextFile ==
    \/ Start(FileProc)
    \/ should_skip_read(FileProc)
    \/ should_skip_probe(FileProc)
    \/ should_skip_cooldown(FileProc)
    \/ acquire(FileProc, "written")
    \/ \E r \in RunOutcomes : drop(FileProc, "written", r)

FileSpec == InitFile /\ [][NextFile]_vars

\* One checker of any configuration is asked about one path, the file
\* system holding any file there; no invocation of the hooks runs.
LockIdle ==
    /\ lock_exists = FALSE
    /\ lock_file = <<>>
    /\ now = 0
    /\ live = {}
    /\ Idle

InitExclusion ==
    /\ checker \in Checkers
    /\ file_path \in Paths
    /\ file \in Files
    /\ verdict = [k \in Contexts |-> "none"]
    /\ accesses = [k \in Contexts |-> <<>>]
    /\ LockIdle
    /\ ExitIdle
    /\ CommandIdle
    /\ HookIdle
    /\ CliIdle
    /\ NameIdle

NextExclusion ==
    \/ \E context \in Contexts : should_exclude_call(context)
    \/ \E f \in Files : Touch(f)

ExclusionSpec == InitExclusion /\ [][NextExclusion]_vars

\* A hook returned any AutomationResult to main.
InitExit ==
    /\ automation_result \in AutomationResults
    /\ exit_status = None
    /\ stderr_message = None
    /\ LockIdle
    /\ ExclusionIdle
    /\ CommandIdle
    /\ HookIdle
    /\ CliIdle
    /\ NameIdle

NextExit == smart_exit

ExitSpec == InitExit /\ [][NextExit]_vars

\* One call of run_command_with_timeout, with any timeout and any child.
InitCommand ==
    /\ cmd_pc = "spawn"
    /\ timeout \in Timeouts
    /\ elapsed = 0
    /\ child = NoChild
    /\ timed_out = FALSE
    /\ cmd_output = NoOutput
    /\ LockIdle
    /\ ExclusionIdle
    /\ ExitIdle
    /\ HookIdle
    /\ CliIdle
    /\ NameIdle

NextCommand ==
    \/ \E ok \in BOOLEAN : spawn(ok)
    \/ try_wait
    \/ sleep
    \/ wait_with_output
    \/ blocked_read
    \/ kill_and_wait
    \/ \E st \in Statuses, out \in ChildStdouts, err \in ChildStderrs,
          held \in BOOLEAN : ChildExit(st, out, err, held)
    \/ DescendantExit

CommandSpec == InitCommand /\ [][NextCommand]_vars

\* One run of handle_smart_lint or handle_smart_test on any hook input,
\* configuration and file; the lock file is absent, or names the live
\* competitor, or holds the stamp of a run released at time 0.
HookCheckers ==
    {c \in Checkers :
        /\ c.global_globset = {}
        /\ c.lint_globset \subseteq {PathPlain}
        /\ c.test_globset = c.lint_globset
        /\ c.skip_generated_files
        /\ c.max_file_size_bytes = MaxFileBytes}

HookFiles ==
    {NoFile,
     [exists |-> TRUE, readable |-> FALSE, bytes |-> <<>>],
     [exists |-> TRUE, readable |-> TRUE, bytes |-> <<1>>],
     [exists |-> TRUE, readable |-> TRUE, bytes |-> <<0>>]}

InitHook ==
    /\ config \in Configs
    /\ operation \in Operations
    /\ hook_input \in HookInputs
    /\ tool_run = None
    /\ checker \in HookCheckers
    /\ file_path = <<>>
    /\ file \in HookFiles
    /\ verdict = [k \in Contexts |-> "none"]
    /\ accesses = [k \in Contexts |-> <<>>]
    /\ now = 0
    /\ cooldown_seconds = [p \in Procs |-> 0]
    /\ lock_content = [p \in Procs |-> <<>>]
    /\ result = [p \in Procs |-> "none"]
    /\ releases = [p \in Procs |-> 0]
    /\ stale_view = FALSE
    /\ \/ /\ lock_exists = FALSE
          /\ lock_file = <<>>
          /\ live = {}
          /\ pc = [p \in Procs |-> IF p = HookProc THEN "enabled" ELSE "start"]
          /\ acquires = [p \in Procs |-> 0]
       \/ /\ lock_exists = TRUE
          /\ lock_file = release_content(0)
          /\ live = {}
          /\ pc = [p \in Procs |-> IF p = HookProc THEN "enabled" ELSE "start"]
          /\ acquires = [p \in Procs |-> 0]
       \/ /\ lock_exists = TRUE
          /\ lock_file = acquire_content(Competitor)
          /\ live = {Competitor}
          /\ pc = [p \in Procs |-> IF p = HookProc THEN "enabled"
                                   ELSE IF p = Competitor THEN "run"
                                   ELSE "start"]
          /\ acquires = [p \in Procs |-> IF p = Competitor THEN 1 ELSE 0]
    /\ ExitIdle
    /\ CommandIdle
    /\ CliIdle
    /\ NameIdle

NextHook ==
    \/ handle_enabled(HookProc)
    \/ handle_from_stdin(HookProc)
    \/ handle_should_process(HookProc)
    \/ handle_file_path(HookProc)
    \/ handle_exists(HookProc)
    \/ handle_should_exclude(HookProc)
    \/ \E ok \in BOOLEAN : handle_discover(HookProc, ok)
    \/ Start(HookProc)
    \/ should_skip_read(HookProc)
    \/ should_skip_probe(HookProc)
    \/ should_skip_cooldown(HookProc)
    \/ \E o \in WriteOutcomes : acquire(HookProc, o)
    \/ handle_run(HookProc)
    \/ \E o \in WriteOutcomes : handle_return(HookProc, o)
    \/ smart_main(HookProc)
    \/ Tick

HookSpec == InitHook /\ [][NextHook]_vars

\* One run of handle_smart_lint or handle_smart_test as in HookSpec, on
\* fewer inputs, with every call of run_command_with_timeout under the
\* guard followed step by step.
NextTool ==
    \/ handle_enabled(HookProc)
    \/ handle_from_stdin(HookProc)
    \/ handle_should_process(HookProc)
    \/ handle_file_path(HookProc)
    \/ handle_exists(HookProc)
    \/ handle_should_exclude(HookProc)
    \/ \E ok \in BOOLEAN : handle_discover(HookProc, ok)
    \/ Start(HookProc)
    \/ should_skip_read(HookProc)
    \/ should_skip_probe(HookProc)
    \/ should_skip_cooldown(HookProc)
    \/ \E o \in WriteOutcomes : acquire(HookProc, o)
    \/ run_tool
    \/ \E ok \in BOOLEAN : spawn(ok)
    \/ try_wait
    \/ sleep
    \/ wait_with_output
    \/ blocked_read
    \/ kill_and_wait
    \/ \E st \in Statuses, out \in ChildStdouts, err \in ChildStderrs,
          held \in BOOLEAN : ChildExit(st, out, err, held)
    \/ DescendantExit
    \/ \E o \in WriteOutcomes, r \in RunOutcomes : tool_return(o, r)

\* the hook inputs of ToolSpec: no input, and the events of three tools
\* that carry a notebook path
ToolHookInputs ==
    {h \in HookInputs :
        h.valid => /\ h.tool_name \in {"Edit", "NotebookEdit", "Read"}
                   /\ h.tool_input.notebook_path.some}

InitTool ==
    /\ InitHook
    /\ hook_input \in ToolHookInputs
    /\ file \in {NoFile, [exists |-> TRUE, readable |-> TRUE, bytes |-> <<1>>]}

ToolSpec == InitTool /\ [][NextTool]_vars

\* One run of the check, lint or test command on any configuration text,
\* path and file.
InitCli ==
    /\ cli \in CliInputs
    /\ built = None
    /\ printed = <<>>
    /\ checker = [global_globset |-> {}, lint_globset |-> {},
                  test_globset |-> {}, skip_binary_files |-> TRUE,
                  skip_generated_files |-> TRUE,
                  max_file_size_bytes |-> MaxFileBytes]
    /\ file_path \in Paths
    /\ file \in HookFiles
    /\ verdict = [k \in Contexts |-> "none"]
    /\ accesses = [k \in Contexts |-> <<>>]
    /\ LockIdle
    /\ ExitIdle
    /\ CommandIdle
    /\ HookIdle
    /\ NameIdle

NextCli ==
    \/ load_checker
    \/ main_check

CliSpec == InitCli /\ [][NextCli]_vars

\* Two live invocations call try_acquire, each on any workspace and
\* operation, and keep their guards.
InitName ==
    /\ lock_keys \in [Procs -> LockKeys]
    /\ tmp_dir = {}
    /\ try_acquired = [p \in Procs |-> "none"]
    /\ lock_exists = FALSE
    /\ lock_file = <<>>
    /\ now = 0
    /\ live = Procs
    /\ Idle
    /\ ExclusionIdle
    /\ ExitIdle
    /\ CommandIdle
    /\ HookIdle
    /\ CliIdle

NextName == \E p \in Procs : try_acquire(p)

NameSpec == InitName /\ [][NextName]_vars

\* =================================================================== claims
\* the invocations in flight: between a try_acquire that returned Some and
\* the drop of that guard
InFlight == {p \in Procs : pc[p] = "run"}

Leaves(q, at) == pc[q] = at /\ pc'[q] \notin {at, "killed"}

ReleasedAt(t) == lock_exists /\ lock_file = release_content(t)

\* what the claimed cooldown rule makes of a should_skip that read the file
\* release() left at time t: refused while now - t < c, admitted from then on
CooldownRule(q, t, c) ==
    IF now - t < c
    THEN pc'[q] = "done" /\ result'[q] = "Skipped"
    ELSE pc'[q] = "acquire"

\* C3 (as claimed): after release() at time t, with no later acquire,
\* should_skip() with cooldown c returns true at every time now with
\* now - t < c and false at every time now with now - t >= c; with c = 0 a
\* try_acquire right after a guard drop goes on to acquire.
C3_Cooldown ==
    [][\A q \in Procs, t \in 0..MaxTime :
        (lock_content[q] = release_content(t) /\ Leaves(q, "cooldown"))
            => CooldownRule(q, t, cooldown_seconds[q])]_vars

\* C3 holds of the cooldowns that fit i64, of the file as it stands and of
\* every invocation that read it
C3_CooldownWithinI64 ==
    /\ [](\A c \in {k \in Cooldowns : k <= I64Max}, t \in 0..MaxTime :
            ReleasedAt(t) =>
                should_skip(c) = (IF now - t < c THEN "true" ELSE "false"))
    /\ [][\A q \in Procs, t \in 0..MaxTime :
            (/\ lock_content[q] = release_content(t)
             /\ cooldown_seconds[q] <= I64Max
             /\ Leaves(q, "cooldown"))
                => CooldownRule(q, t, cooldown_seconds[q])]_vars

\* the holder p was killed before its guard was dropped, and the lock file
\* still holds only its PID
Crashed(p) ==
    /\ pc[p] = "killed"
    /\ acquires[p] = 1
    /\ releases[p] = 0
    /\ lock_exists
    /\ lock_file = acquire_content(p)

CooldownForm(content, t) ==
    /\ Len(Lines(content)) = 2
    /\ Lines(content)[1] = <<>>
    /\ ~pid_line(content).ok
    /\ timestamp_line(content) = Ok(t)

C6_DeclineHasNoSideEffects ==
    /\ [](\A p \in Procs :
            result[p] = "Skipped" => (acquires[p] = 0 /\ releases[p] = 0))
    /\ [][\A p \in Procs :
            (pc[p] \in {"read", "probe", "cooldown"} /\ pc'[p] # pc[p])
                => UNCHANGED <<lock_exists, lock_file, acquires, releases>>]_vars

\* C6 witness: an invocation was refused while the holder's PID is still the
\* whole lock file
C6_Witness ==
    \E p, q \in Procs :
        /\ result[p] = "Skipped"
        /\ pc[q] = "run"
        /\ lock_exists
        /\ lock_file = acquire_content(q)

\* C9: when the write of the PID fails, try_acquire returns the error: no
\* guard exists, so no tool runs and no release follows, and the
\* orchestrator ends with the error instead of an AutomationResult.
C9_AcquireFailsLoudly ==
    /\ [][\A p \in Procs :
            (Leaves(p, "acquire") /\ acquires'[p] = acquires[p])
                => (/\ pc'[p] = "done"
                    /\ result'[p] = "Error"
                    /\ releases'[p] = 0)]_vars
    /\ [](\A p \in Procs :
            /\ pc[p] = "run" => acquires[p] = 1
            /\ acquires[p] = 0 => releases[p] = 0)

\* C9 witness: an invocation ended with the error of a failed acquire
C9_Witness ==
    \E p \in Procs :
        /\ pc[p] = "done"
        /\ result[p] = "Error"
        /\ acquires[p] = 0
        /\ releases[p] = 0

\* the state of a lock file as a ProcessLock with cooldown c reads it at
\* time t, running being the PIDs that answer the probe
LockStateOf(exists, content, running, t, c) ==
    LET pid == pid_line(content)
        held == exists /\ pid.ok /\ pid.val \in running
    IN  CASE held -> "Held"
          [] ~held /\ exists /\ cooldown_check(content, t, c) = "true" -> "Cooldown"
          [] OTHER -> "Free"

LockState(c) == LockStateOf(lock_exists, lock_file, live, now, c)

\* the kinds of step
AcquireStep(p) == acquires'[p] # acquires[p]
DropStep(p) == releases'[p] # releases[p]
TickStep == now' # now
\* a process whose PID the file may name ends without a release of its own
DeathStep == \E p \in Procs : p \in live /\ p \notin live' /\ ~DropStep(p)
\* the PID of an ended invocation goes to a live process
ReuseStep == \E p \in Procs : pc[p] \in {"done", "killed"} /\ p \notin live /\ p \in live'

\* the cooldowns the cycle is observed with: positive ones that fit i64
CycleCooldowns == {c \in Cooldowns : c > 0 /\ c <= I64Max}

FirstLineMalformed(content) == ~pid_line(content).ok

HorizonPending(c) ==
    /\ now = MaxTime
    /\ lock_exists
    /\ LET ts == timestamp_line(lock_file)
       IN ts.ok /\ MaxTime - ts.val < c

\* the PID in the lock file belongs to an ended invocation and is now
\* carried by an unrelated live process
StalePidReused ==
    /\ lock_exists
    /\ \E p \in Procs :
          /\ pc[p] \in {"done", "killed"}
          /\ p \in live
          /\ lock_file = acquire_content(p)

\* C8 (as claimed): no terminal state: with time advancing and every holder
\* dropping its guard or dying, should_skip() returns false again and again,
\* whatever the lock file has come to hold.
C8_NoTerminalState ==
    \A c \in Cooldowns : []<>(should_skip(c) = "false" \/ HorizonPending(c))

\* C8 (amended): with time advancing and every holder dropping its guard or
\* dying, should_skip() returns false again and again, unless the file holds
\* the PID of a killed holder that the system has given to another process
\* which stays alive: then the lock stays unavailable as long as that
\* process lives.
C8_NoTerminalStateUnlessPidReused ==
    \A c \in Cooldowns :
        []<>(should_skip(c) = "false" \/ HorizonPending(c) \/ StalePidReused)

\* every invocation has ended, one of them released the lock, and the lock
\* is available again to every cooldown
C8_Witness ==
    /\ \A p \in Procs : pc[p] \in {"done", "killed"}
    /\ \E p \in Procs : releases[p] = 1
    /\ \E t \in 0..MaxTime : ReleasedAt(t)
    /\ \A c \in Cooldowns : should_skip(c) = "false"

\* ------------------------------------------------------ exclusion engine
\* the verdict a call in `context` gives in the current state
Verdict(context) == should_exclude_context(checker, file_path, file, context)

\* the calls made since the file last changed returned v in `context`
Returned(context, v) == verdict[context] = v

\* C11: global veto: a path matched by a global pattern is excluded in every
\* context, whatever the lint and test patterns, the rule flags and the
\* file; every call made on it returned true.
C11_GlobalVeto ==
    is_match(checker.global_globset, file_path) =>
        \A context \in Contexts :
            /\ Verdict(context) = "true"
            /\ verdict[context] \in {"none", "true"}

\* a small readable text file without marker, matched by a global pattern
\* only, was asked about in all three contexts
C11_Witness ==
    /\ is_match(checker.global_globset, file_path)
    /\ ~is_match(checker.lint_globset, file_path)
    /\ ~is_match(checker.test_globset, file_path)
    /\ file.exists /\ file.readable /\ file.bytes = <<1>>
    /\ ~is_generated_file(file_path)
    /\ \A context \in Contexts : Returned(context, "true")

\* none of the three file heuristics says "exclude": the path does not
\* exist, or the file is not over the size limit, no null byte was found in
\* it and, with the flag on, its path holds no generated-file marker
NoHeuristicTriggered ==
    file.exists =>
        /\ Len(file.bytes) <= checker.max_file_size_bytes
        /\ ~(checker.skip_binary_files /\ is_binary_file(file) = "true")
        /\ ~(checker.skip_generated_files /\ is_generated_file(file_path))

\* the path is matched by `only` and by neither of the two other matchers
MatchedOnlyBy(only, other) ==
    /\ ~is_match(checker.global_globset, file_path)
    /\ is_match(only, file_path)
    /\ ~is_match(other, file_path)

\* C12 (as claimed): context isolation: a path matched only by a test_skip
\* pattern, no file heuristic triggered, is excluded for Test and for Any
\* and included for Lint; a path matched only by lint_skip is excluded for
\* Lint and for Any and included for Test.
C12_ContextIsolation ==
    NoHeuristicTriggered =>
        /\ MatchedOnlyBy(checker.test_globset, checker.lint_globset) =>
              /\ Verdict("Test") = "true" /\ verdict["Test"] \in {"none", "true"}
              /\ Verdict("Any") = "true" /\ verdict["Any"] \in {"none", "true"}
              /\ Verdict("Lint") = "false" /\ verdict["Lint"] \in {"none", "false"}
        /\ MatchedOnlyBy(checker.lint_globset, checker.test_globset) =>
              /\ Verdict("Lint") = "true" /\ verdict["Lint"] \in {"none", "true"}
              /\ Verdict("Any") = "true" /\ verdict["Any"] \in {"none", "true"}
              /\ Verdict("Test") = "false" /\ verdict["Test"] \in {"none", "false"}

\* C12 holds of every file the binary check can open and read, and of every
\* checker that does not run the binary check
C12_ContextIsolationOfReadableFiles ==
    (file.exists /\ checker.skip_binary_files => file.readable) =>
        C12_ContextIsolation

\* the union of two verdicts: excluded when either excludes, included when
\* both include, an error when neither excludes and one is an error
Either(a, b) ==
    IF a = "true" \/ b = "true" THEN "true"
    ELSE IF a = "error" \/ b = "error" THEN "error"
    ELSE "false"

\* C13: the Any verdict is the union of the Lint and Test verdicts, for every
\* path, checker and file: should_exclude is true exactly when
\* should_exclude_lint or should_exclude_test is, and fails only when both
\* of them fail; so do the verdicts returned on an unchanged file, and a
\* file excluded for Lint or for Test is excluded for Any.
C13_AnyIsUnion ==
    /\ should_exclude = Either(should_exclude_lint, should_exclude_test)
    /\ should_exclude = "error" =>
          should_exclude_lint = "error" /\ should_exclude_test = "error"
    /\ (\A context \in Contexts : verdict[context] # "none") =>
          verdict["Any"] = Either(verdict["Lint"], verdict["Test"])
    /\ (verdict["Any"] # "none" /\ "true" \in {verdict["Lint"], verdict["Test"]})
          => verdict["Any"] = "true"

\* a path on the lint_skip list only, of a file no rule excludes, was asked
\* about in the three contexts: excluded for Lint and Any, included for Test
C13_Witness ==
    /\ MatchedOnlyBy(checker.lint_globset, checker.test_globset)
    /\ file.exists
    /\ Returned("Lint", "true")
    /\ Returned("Test", "false")
    /\ Returned("Any", "true")

\* the verdict of the patterns alone: the global match or the context's
PatternVerdict(context) ==
    IF \/ is_match(checker.global_globset, file_path)
       \/ context_match(checker, file_path, context)
    THEN "true" ELSE "false"

\* C14: for a path that does not exist the verdict is the pattern verdict
\* alone, in every context: the size, binary and generated-file rules never
\* exclude it, whatever its name, and it is never an error.
C14_NonExistentPathJudgedOnPatterns ==
    ~file.exists =>
        \A context \in Contexts :
            /\ Verdict(context) = PatternVerdict(context)
            /\ verdict[context] \in {"none", PatternVerdict(context)}

\* a path with a generated-file marker in its name, on no pattern list and
\* absent from the disk, was found included in every context by a checker
\* that skips generated files
C14_Witness ==
    /\ ~file.exists
    /\ is_generated_file(file_path)
    /\ checker.skip_generated_files
    /\ \A context \in Contexts :
          PatternVerdict(context) = "false" /\ Returned(context, "false")

\* a step in which a call returned
CallStep == \E context \in Contexts :
    verdict'[context] # verdict[context] /\ verdict'[context] # "none"

C16_ExitCodeMapping ==
    /\ \A r \in AutomationResults :
          /\ r.variant \in {"NoAction", "Skipped"} => exit_code(r) = 0
          /\ r.variant \in {"Success", "Failure"} => exit_code(r) = 2
          /\ message(r).some <=> exit_code(r) = 2
          /\ \A q \in AutomationResults :
                q.variant = r.variant =>
                    /\ exit_code(q) = exit_code(r)
                    /\ message(q).some = message(r).some
    /\ exit_status.some =>
          /\ exit_status.val = exit_code(automation_result)
          /\ exit_status.val = 2 <=> stderr_message.some
          /\ exit_status.val =
                (IF automation_result.variant \in {"NoAction", "Skipped"}
                 THEN 0 ELSE 2)
          /\ stderr_message.some => stderr_message.val = automation_result.text

\* the hook returned Success with an empty text: the process has exited with
\* 2 and a message, though an empty one, was printed
C16_Witness ==
    /\ automation_result = Success(<<>>)
    /\ exit_status.some /\ exit_status.val = 2
    /\ stderr_message.some /\ stderr_message.val = <<>>

\* the call of run_command_with_timeout has returned
CommandReturned == cmd_pc = "returned"

\* the call is in progress and the child was spawned
CommandInCall == cmd_pc \in {"try_wait", "sleep", "wait_with_output", "kill"}

\* C17: run_command_with_timeout never blocks past timeout + one poll
\* interval; a child that has not ended by the timeout is killed and reaped
\* before the call returns, and the result is then success = false with
\* stderr "Command timed out" and empty stdout.
C17_TimeoutContract ==
    /\ CommandInCall \/ CommandReturned => elapsed <= timeout + PollInterval
    /\ CommandReturned /\ timed_out =>
          /\ child.state = "reaped"
          /\ cmd_output = CommandOutput(FALSE, <<>>, TimedOutText)

\* The part of C17 that concerns the timeout arm holds: once
\* wait_with_timeout has returned None, the call returns at once, at most
\* timeout + one poll interval after the spawn, with the child reaped and
\* the synthetic output.
C17_TimeoutArm ==
    timed_out =>
        /\ elapsed <= timeout + PollInterval
        /\ CommandReturned =>
              /\ child.state = "reaped"
              /\ cmd_output = CommandOutput(FALSE, <<>>, TimedOutText)

\* the child ended in time, but the call is still blocked after
\* timeout + one poll interval, reading pipes that a descendant holds
C17_BlockedPastTimeout ==
    /\ cmd_pc = "wait_with_output"
    /\ child.state = "reaped"
    /\ child.pipes_held
    /\ elapsed > timeout + PollInterval

\* the spawn failed: there never was a child
SpawnFailed == CommandReturned /\ child.state = "none"

\* the child ended by itself with a status other than zero and
\* wait_with_timeout reported that status
NonZeroExit ==
    CommandReturned /\ ~timed_out /\ child.state = "reaped"
        /\ child.status # "exit0"

BeforeLock ==
    {"enabled", "from_stdin", "should_process", "file_path", "exists",
     "should_exclude", "discover"}

\* the handler is in try_acquire or runs the tools under the guard
AtLock == {"start", "read", "probe", "cooldown", "acquire", "run"}

\* the handler neither touched the lock file nor reached the tools: it is
\* before try_acquire, or returned NoAction from there
NoLockNoCommand(p) ==
    /\ pc[p] \in BeforeLock \cup {"done"}
    /\ pc[p] = "done" => result[p] = "NoAction"
    /\ acquires[p] = 0
    /\ releases[p] = 0
    /\ ~tool_run.some

\* the event passes the filter of the claim
EventProcessed ==
    /\ hook_input.valid
    /\ hook_input.hook_event_name = "PostToolUse"
    /\ hook_input.tool_name \in {"Edit", "MultiEdit", "Write", "NotebookEdit"}

\* the path the claim names: notebook_path for NotebookEdit, else file_path
EventPath ==
    IF hook_input.tool_name = "NotebookEdit"
    THEN hook_input.tool_input.notebook_path
    ELSE hook_input.tool_input.file_path

\* C19: hook filter: only a PostToolUse event of Edit, MultiEdit, Write or
\* NotebookEdit is processed; on every other event, and on an event without
\* its path, the handler returns NoAction without touching the lock file or
\* running a tool; the path it works on is notebook_path for NotebookEdit
\* and file_path for every other tool.
C19_HookFilter ==
    /\ ~EventProcessed \/ ~EventPath.some =>
          /\ NoLockNoCommand(HookProc)
          /\ pc[HookProc] \notin {"exists", "should_exclude", "discover"}
    /\ pc[HookProc] \in {"exists", "should_exclude", "discover"} \cup AtLock =>
          /\ EventProcessed
          /\ EventPath.some
          /\ file_path = EventPath.val

\* a NotebookEdit event that carries both paths was processed: the handler
\* took the notebook path and went as far as the tools
C19_Witness ==
    /\ EventProcessed
    /\ hook_input.tool_name = "NotebookEdit"
    /\ hook_input.tool_input.file_path = Some(PathPlain)
    /\ file_path = PathNotebook
    /\ pc[HookProc] = "run"

\* the four variants of AutomationResult
Variants == {"NoAction", "Skipped", "Success", "Failure"}

\* the handler has returned
HandlerDone == pc[HookProc] = "done"

\* a formatter, auto-fix, check or test command could not be spawned
ToolSpawnFailed ==
    /\ tool_run.some
    /\ extension_is_py(file_path)
    /\ \/ /\ tool_run.val.linter
          /\ \/ tool_run.val.formatter /\ ~tool_run.val.format_spawned
             \/ tool_run.val.autofix /\ ~tool_run.val.fix_spawned
       \/ tool_run.val.output.kind = "Err"

\* this step makes the handler return an error
ErrorStep == result[HookProc] # "Error" /\ result'[HookProc] = "Error"

Exited == exit_status.some

\* the lint or test tool ran and failed, and the AI collaborator is disabled
\* or its call failed
FailedWithoutAi ==
    /\ tool_run.some
    /\ tool_run.val.output.kind = "Ok"
    /\ ~tool_run.val.output.success
    /\ tool_run.val.ai \in AiUnavailable

\* C21 as stated: when the tool fails with non-empty captured output and the
\* AI collaborator is disabled or its call errors, the run ends in Failure
\* and the message contains the raw captured output, stdout and stderr.
C21_RawOutputFallback ==
    /\ Exited
    /\ FailedWithoutAi
    /\ tool_run.val.output.stdout \o tool_run.val.output.stderr # <<>>
    => /\ automation_result.variant = "Failure"
       /\ Contains(automation_result.text, tool_run.val.output.stdout)
       /\ Contains(automation_result.text, tool_run.val.output.stderr)

\* C21, amended: when the tool fails and the AI collaborator is disabled or
\* its call errors, the run ends in Failure, never in Success, NoAction or an
\* error; when the combined output is not blank the message contains it,
\* stripped of leading and trailing whitespace; when it is blank the message
\* is a fixed text.
C21_TrimmedOutputFallback ==
    Exited /\ FailedWithoutAi =>
        /\ result[HookProc] = "Failure"
        /\ automation_result.variant = "Failure"
        /\ exit_status = Some(2)
        /\ stderr_message = Some(automation_result.text)
        /\ Contains(automation_result.text,
                    Trim(combined_output(tool_run.val.output)))
        /\ automation_result.text # <<>>

\* the linter failed with text on both pipes, the API call failed, and the
\* process printed a Failure that holds both texts
C21_Witness ==
    /\ Exited
    /\ FailedWithoutAi
    /\ operation = "lint"
    /\ tool_run.val.ai = AiApiError
    /\ tool_run.val.output = CommandOutput(FALSE, <<"out">>, <<"err">>)
    /\ automation_result.variant = "Failure"
    /\ Contains(automation_result.text, <<"out", LF, "err">>)

\* --------------------------------------------- construction of a checker
\* one of the lists of the configuration holds a pattern Glob::new rejects
InvalidGlob(cfg) ==
    ~globs_ok(cfg.patterns) \/ ~globs_ok(cfg.lint_skip) \/ ~globs_ok(cfg.test_skip)

\* the text names a size: a finite number that is not negative, and
\* optionally one of the units KB, MB, GB
ValidSizeString(s) ==
    LET t == to_uppercase(Trim(s))
        unit == \E u \in {"K", "M", "G"} : ends_with(t, <<u, "B">>)
        x == ParseF64(IF unit THEN strip_suffix(t, <<"K", "B">>) ELSE t)
    IN  x.ok /\ x.class = "finite" /\ (x.neg => x.num = 0)

\* load_checker has returned an error to main: no checker, no verdict
\* asked for, exit with code 1
FailedAtConstruction ==
    /\ ~built.val.ok
    /\ ~built.val.checker.some
    /\ exit_status.some /\ exit_status.val = 1
    /\ verdict = [k \in Contexts |-> "none"]

\* C22: configuration errors fail fast: from_yaml / from_config returns an
\* error and constructs no checker whenever a pattern of the global,
\* lint_skip or test_skip list is an invalid glob, the YAML is invalid, or
\* max_file_size is not a valid size string; the error is raised at
\* construction, before any query.
C22_FailFast ==
    /\ built.some
    /\ \/ cli.yaml.kind # "ok"
       \/ InvalidGlob(cli.yaml.config)
       \/ ~ValidSizeString(cli.yaml.config.max_file_size)
    => FailedAtConstruction

\* The part of C22 that concerns the YAML text and the patterns holds, and
\* so does the rule for every size text that parse_file_size rejects.
C22_FailFastOnWhatIsRejected ==
    /\ built.some
    /\ \/ cli.yaml.kind # "ok"
       \/ InvalidGlob(cli.yaml.config)
       \/ ~parse_file_size(cli.yaml.config.max_file_size).ok
    => FailedAtConstruction

\* a checker was built from a size text that names no size, and it has
\* given a verdict
C22_CheckerOfNoSize ==
    /\ built.some
    /\ built.val.ok
    /\ ~ValidSizeString(cli.yaml.config.max_file_size)
    /\ checker.max_file_size_bytes = 0
    /\ file.exists /\ file.readable
    /\ verdict[CommandContext(cli.command)] = "true"

\* ------------------------------------------ check, lint and test commands
\* the verdict main asked for, "none" when it asked for none
CliVerdict == verdict[CommandContext(cli.command)]

\* the process of the command has exited
CliExited == built.some /\ exit_status.some

\* C24: the check, lint and test commands exit with code 1 exactly when the
\* file is excluded for the Any, Lint and Test context respectively, and
\* with code 0 exactly when it is included.
C24_ExitCodeIsVerdict ==
    CliExited =>
        /\ exit_status.val = 1 <=> CliVerdict = "true"
        /\ exit_status.val = 0 <=> CliVerdict = "false"

\* the code that the configuration text, the command, the path and the
\* file determine
ExitCodeOf(yaml, command, path, f) ==
    IF ~from_yaml(yaml).ok THEN 1
    ELSE IF should_exclude_context(from_yaml(yaml).checker.val, path, f,
                                   CommandContext(command)) = "false"
    THEN 0
    ELSE 1

\* C24, amended: the commands exit with code 0 exactly when the file is
\* included, and with code 1 when it is excluded; they also exit with code
\* 1, and an error message instead of a verdict, when the configuration
\* cannot be loaded or the verdict cannot be computed.  The code is a
\* function of configuration, command, path and file: the verbose flag
\* changes only what is printed.
C24_ExitCodeIsVerdictOrError ==
    CliExited =>
        /\ exit_status.val \in {0, 1}
        /\ exit_status.val = 0 <=> CliVerdict = "false"
        /\ CliVerdict = "true" => exit_status.val = 1
        /\ CliVerdict \notin {"true", "false"} =>
              /\ stderr_message.some
              /\ ~built.val.ok \/ CliVerdict = "error"
        /\ exit_status.val = ExitCodeOf(cli.yaml, cli.command, file_path, file)
        /\ ~cli.verbose => printed = <<>>
        /\ cli.verbose /\ CliVerdict \in {"true", "false"} =>
              printed = <<"Loading configuration from">>
                        \o verdict_line(cli.command, CliVerdict = "true")

\* a verbose lint command found the file excluded by a lint pattern, printed
\* so and exited with 1
C24_Witness ==
    /\ CliExited
    /\ cli.command = "lint"
    /\ cli.verbose
    /\ CliVerdict = "true"
    /\ file_path \in checker.lint_globset
    /\ exit_status.val = 1
    /\ printed = <<"Loading configuration from", "EXCLUDED from linting">>

\* ------------------------------------------------------- lock naming
\* the canonical path of the workspace of invocation p
CanonicalOf(p) == canonicalize(lock_keys[p].workspace_dir)

\* the name of the lock file of invocation p
NameOf(p) == lock_file_name(lock_keys[p].workspace_dir, lock_keys[p].operation)

\* p and q lock workspaces that exist
Resolved(p, q) == CanonicalOf(p).some /\ CanonicalOf(q).some

\* p and q have the same key: canonical workspace path and operation
SameKey(p, q) ==
    /\ CanonicalOf(p).val = CanonicalOf(q).val
    /\ lock_keys[p].operation = lock_keys[q].operation

\* C23: lock naming: the same canonical workspace path with the same
\* operation always maps to the same lock file, and two keys that differ in
\* the canonical workspace path or in the operation map to different lock
\* files; hence a guard held on one key never makes try_acquire on another
\* key return None.
C23_LockNaming ==
    \A p, q \in Procs :
        p # q /\ Resolved(p, q) =>
            /\ SameKey(p, q) <=> NameOf(p) = NameOf(q)
            /\ try_acquired[p] = "Some" /\ try_acquired[q] = "None"
                  => SameKey(p, q)

\* The parts of C23 that hold: one key has one lock file, keys of different
\* operations have different lock files, and so have workspaces whose
\* canonical paths differ as texts after to_string_lossy, as far as the
\* digests of the texts differ.
C23_LockNamingOfTexts ==
    \A p, q \in Procs :
        p # q /\ Resolved(p, q) =>
            /\ SameKey(p, q) => NameOf(p) = NameOf(q)
            /\ lock_keys[p].operation # lock_keys[q].operation
                  => NameOf(p) # NameOf(q)
            /\ Digest(to_string_lossy(CanonicalOf(p).val), 0)
                    # Digest(to_string_lossy(CanonicalOf(q).val), 0)
                  => NameOf(p) # NameOf(q)
            /\ try_acquired[p] = "Some" /\ try_acquired[q] = "None"
                  => NameOf(p) = NameOf(q)

\* a guard held for lint on one workspace has made try_acquire for lint on
\* another workspace return None
C23_SkippedForAnotherWorkspace ==
    \E p, q \in Procs :
        /\ p # q
        /\ Resolved(p, q)
        /\ CanonicalOf(p).val # CanonicalOf(q).val
        /\ try_acquired[p] = "Some"
        /\ try_acquired[q] = "None"

\* ------------------------------------------------- release and the others
\* the PID line of the lock file names a live process other than p
NamesOtherLive(p) ==
    /\ lock_exists
    /\ pid_line(lock_file).ok
    /\ pid_line(lock_file).val # p
    /\ is_process_running(pid_line(lock_file).val)

C25_HolderUnmarked ==
    \E p, q \in Procs :
        /\ pc[p] = "run"
        /\ pc[q] = "done"
        /\ releases[q] = 1
        /\ lock_exists
        /\ ~pid_line(lock_file).ok
        /\ should_skip(0) = "false"

\* ------------------------------------------- the format of the lock file
\* exactly one decimal PID and nothing else
PidOnly(content) == content # <<>> /\ AllDigits(content)

\* an empty first line, then one decimal timestamp and nothing else
StampOnly(content) ==
    /\ Len(content) >= 2
    /\ Head(content) = LF
    /\ AllDigits(Tail(content))

\* C26: lock-file format invariant: after any sequence of acquire and
\* release calls the lock file content is either exactly one decimal PID
\* and nothing else, or an empty first line followed by one decimal Unix
\* timestamp; the file never holds both a PID and a timestamp.
C26_LockFileFormat ==
    lock_exists =>
        /\ PidOnly(lock_file) \/ StampOnly(lock_file)
        /\ PidOnly(lock_file) =>
              pid_line(lock_file).ok /\ ~timestamp_line(lock_file).ok
        /\ StampOnly(lock_file) =>
              ~pid_line(lock_file).ok /\ timestamp_line(lock_file).ok

\* C26, amended: the lock file content is exactly one decimal PID and
\* nothing else, or an empty first line followed by one decimal Unix
\* timestamp, or, after an fs::write that failed once the file was
\* truncated, empty; the file never holds both a PID and a timestamp.
C26_LockFileFormatOrEmpty ==
    lock_exists =>
        /\ PidOnly(lock_file) \/ StampOnly(lock_file) \/ lock_file = <<>>
        /\ ~(pid_line(lock_file).ok /\ timestamp_line(lock_file).ok)
        /\ PidOnly(lock_file) => pid_line(lock_file).ok
        /\ StampOnly(lock_file) => timestamp_line(lock_file).ok
        /\ lock_file = <<>> => \A c \in Cooldowns : should_skip(c) = "false"

\* the file has held the PID of one invocation, then the stamp of its drop,
\* and holds the PID of the next one
C26_Witness ==
    \E p, q \in Procs :
        /\ pc[p] = "done" /\ releases[p] = 1
        /\ pc[q] = "run"
        /\ lock_exists
        /\ lock_file = acquire_content(q)
        /\ PidOnly(lock_file)

\* ----------------------------------------------- what the timestamp records
\* C27: the timestamp on line 2 of the lock file records the last
\* successful completion of a run: whenever line 2 holds a timestamp, a
\* guarded run on the key completed successfully at that time.
C27_StampOfSuccess ==
    lock_exists /\ timestamp_line(lock_file).ok =>
        \E p \in Procs :
            /\ pc[p] = "done"
            /\ releases[p] = 1
            /\ result[p] = "Success"

\* C27, amended: the timestamp on line 2 records the last guard drop: it is
\* written, with the time of the drop, whenever a guarded run returns,
\* whatever it returns (Success, Failure, NoAction or an error), and by no
\* other step; the cooldown it starts follows a run that has ended.
C27_StampOfDrop ==
    /\ [](lock_exists /\ timestamp_line(lock_file).ok =>
            /\ timestamp_line(lock_file).val <= now
            /\ \E p \in Procs :
                  /\ pc[p] = "done"
                  /\ releases[p] = 1
                  /\ result[p] \in RunOutcomes)
    /\ [][\A p \in Procs :
            DropStep(p) =>
                /\ pc[p] = "run"
                /\ pc'[p] = "done"
                /\ result'[p] \in RunOutcomes
                /\ timestamp_line(lock_file') = Ok(now)]_vars
    /\ [][timestamp_line(lock_file') # timestamp_line(lock_file)
            /\ timestamp_line(lock_file').ok
                => \E p \in Procs : DropStep(p)]_vars

\* a guarded run ended in Failure a second ago, and the lock file holds the
\* stamp of its drop, which keeps a cooldown of two seconds running
C27_Witness ==
    \E p \in Procs :
        /\ pc[p] = "done"
        /\ releases[p] = 1
        /\ result[p] = "Failure"
        /\ now = 1
        /\ ReleasedAt(0)
        /\ cooldown_check(lock_file, now, 2) = "true"

\* ------------------------------------------------- a declined try_acquire
\* try_acquire returned None to the handler
Declined == result[HookProc] = "Skipped"

\* C30: when try_acquire returns None (another run is active or the cooldown
\* is in effect) the orchestrator returns Skipped: it spawns no formatter,
\* linter or tester, calls no AI analysis, leaves the lock file unchanged,
\* and the process exits with code 0 and no message.
C30_SkippedIsSilent ==
    /\ [](Declined =>
            /\ pc[HookProc] = "done"
            /\ ~tool_run.some
            /\ cmd_pc = "idle"
            /\ acquires[HookProc] = 0 /\ releases[HookProc] = 0
            /\ lock_exists
            /\ lock_file \in {acquire_content(Competitor), release_content(0)}
            /\ exit_status.some =>
                  /\ automation_result = Skipped
                  /\ exit_status.val = 0
                  /\ ~stderr_message.some)
    /\ [][Declined' => UNCHANGED <<lock_exists, lock_file>>]_vars
    /\ [][\A o \in {"read", "probe", "cooldown"} :
            Leaves(HookProc, o) /\ pc'[HookProc] = "done"
            /\ result'[HookProc] # "Error"
                => Declined']_vars

\* the cooldown of a run released at time 0 is in effect: the handler was
\* refused and the process has exited with 0, the stamp still in the file
C30_Witness ==
    /\ Declined
    /\ lock_file = release_content(0)
    /\ ~tool_run.some
    /\ exit_status.some /\ exit_status.val = 0
    /\ ~stderr_message.some

\* ------------------------------------------------ order of the handler
\* the steps of a handler in the order of the code, from_stdin to the run
\* of the tools; try_acquire spans "start" to "acquire"
HandlerOrder ==
    <<"enabled", "from_stdin", "should_process", "file_path", "exists",
      "should_exclude", "discover", "start", "read", "probe", "cooldown",
      "acquire", "run", "done">>
Rank(label) == CHOOSE i \in 1..Len(HandlerOrder) : HandlerOrder[i] = label

\* the step of the claim's list a label belongs to: 8 is try_acquire, 9
\* the execution of the tools, 10 the return
Stage(label) ==
    CASE Rank(label) <= 7 -> Rank(label)
      [] Rank(label) \in 8..12 -> 8
      [] label = "run" -> 9
      [] OTHER -> 10

\* the handler is inside try_acquire or holds the guard
InLock == Stage(pc[HookProc]) \in {8, 9} /\ pc[HookProc] # "start"

\* the handler holds the guard
GuardHeld ==
    /\ pc[HookProc] = "run"
    /\ acquires[HookProc] = 1
    /\ releases[HookProc] = 0

\* C28: orchestrator ordering: in every run the steps happen in the order
\* enabled-check, hook parse, event/tool filter, path resolution, existence
\* check, exclusion verdict, project discovery, try_acquire, tool execution;
\* the lock file is read or written only after the file was found to exist
\* and to be included for that operation, and a tool subprocess is spawned
\* only while the run holds the guard.
C28_OrchestratorOrder ==
    /\ [][pc'[HookProc] # pc[HookProc] =>
            /\ Rank(pc'[HookProc]) > Rank(pc[HookProc])
            /\ Stage(pc'[HookProc])
                  \in {Stage(pc[HookProc]), Stage(pc[HookProc]) + 1, 10}]_vars
    /\ [](InLock =>
            /\ enabled
            /\ should_process(hook_input)
            /\ file_path = input_file_path(hook_input).val
            /\ file.exists
            /\ verdict[OperationContext] = "false")
    /\ [][<<lock_exists, lock_file>> # <<lock_exists', lock_file'>>
          \/ lock_content'[HookProc] # lock_content[HookProc]
                => InLock]_vars
    /\ [][child.state = "none" /\ child'.state = "running" => GuardHeld]_vars
    /\ [](cmd_pc \notin {"idle", "returned"} => GuardHeld)

\* the check of an existing, included file was spawned under the guard, the
\* lock file naming the handler's process
C28_Witness ==
    /\ GuardHeld
    /\ child.state = "running"
    /\ lock_file = acquire_content(HookProc)
    /\ file.exists
    /\ verdict[OperationContext] = "false"

\* --------------------------------------------- the child and the guard
\* C29: the lock is never released while a tool subprocess spawned under it
\* is still running: on every path through run_command_with_timeout and the
\* handlers the child has exited or has been killed, and has been reaped,
\* before the guard is dropped and the cooldown timestamp is written.
C29_ChildReapedBeforeRelease ==
    /\ [][DropStep(HookProc) =>
            /\ cmd_pc \in {"idle", "returned"}
            /\ child.state \in {"none", "reaped"}]_vars
    /\ [](child.state \in {"running", "zombie"} => GuardHeld)
    /\ [](pc[HookProc] = "done" => child.state \in {"none", "reaped"})

\* the tool ran into its timeout, was killed and reaped, and the guard was
\* dropped after that: the lock file holds the stamp
C29_Witness ==
    /\ pc[HookProc] = "done"
    /\ releases[HookProc] = 1
    /\ timed_out
    /\ child.state = "reaped"
    /\ child.status = "signal"
    /\ cmd_output = CommandOutput(FALSE, <<>>, TimedOutText)
    /\ lock_file = release_content(now)

\* the guard was dropped while a process that the tool started still holds
\* the pipes of the tool
C29_DescendantOutlivesGuard ==
    /\ pc[HookProc] = "done"
    /\ releases[HookProc] = 1
    /\ child.state = "reaped"
    /\ child.pipes_held

\* ------------------------------------------ the timestamp line of the file
\* the step of should_skip that reads the timestamp line, for a file whose
\* first line named no live process
CooldownStep == pc[FileProc] = "cooldown" /\ pc'[FileProc] # "cooldown"

\* should_skip returned Ok(true), Ok(false), an error
SkipTrue == pc'[FileProc] = "done" /\ result'[FileProc] = "Skipped"
SkipFalse == pc'[FileProc] = "acquire"
SkipError == pc'[FileProc] = "done" /\ result'[FileProc] = "Error"

\* C31: timestamp line handling in should_skip: when line 0 names no live
\* process, should_skip returns false without error for every lock file
\* whose second line is absent, is not an integer, or is an integer
\* timestamp at least cooldown_seconds in the past, and returns true exactly
\* when the second line is an integer timestamp with
\* now - timestamp < cooldown_seconds.
C31_TimestampLine ==
    [][CooldownStep =>
          LET ts == timestamp_line(lock_content[FileProc])
              recent == ts.ok /\ now - ts.val < cooldown_seconds[FileProc]
          IN  /\ ~pid_check(lock_content[FileProc])
              /\ recent => SkipTrue
              /\ ~recent => SkipFalse]_vars

\* the same for the timestamps that DateTime::from_timestamp takes and the
\* cooldowns within i64; any other timestamp gives the error
C31_TimestampLineInRange ==
    [][CooldownStep =>
          LET ts == timestamp_line(lock_content[FileProc])
              c == cooldown_seconds[FileProc]
              recent == ts.ok /\ now - ts.val < c
          IN  /\ ~pid_check(lock_content[FileProc])
              /\ ts.ok /\ ~from_timestamp_ok(ts.val) => SkipError
              /\ (ts.ok => from_timestamp_ok(ts.val)) /\ c <= I64Max =>
                    /\ recent => SkipTrue
                    /\ ~recent => SkipFalse]_vars

\* should_skip has failed on a file that names no live process and whose
\* second line is an integer far in the past
C31_ErrorOnOldTimestamp ==
    /\ pc[FileProc] = "done"
    /\ result[FileProc] = "Error"
    /\ ~pid_check(lock_file)
    /\ timestamp_line(lock_file).ok
    /\ timestamp_line(lock_file).val < TimestampMin
    /\ acquires[FileProc] = 0

\* ------------------------------------------------ the lock file stays
\* some invocation has created the lock file by its acquire
Created == \E p \in Procs : acquires[p] > 0

\* C32: the lock file is never deleted: once acquire() has created it, it
\* exists in every later state reached by acquire, release, should_skip or
\* try_acquire; and while it does not exist (never run before)
\* should_skip() returns false for every cooldown.
C32_NeverDeleted ==
    /\ [][lock_exists => lock_exists']_vars
    /\ [](Created => lock_exists)
    /\ [](~lock_exists => \A c \in Cooldowns : should_skip(c) = "false")
    /\ [][\A p \in Procs :
            ~lock_exists /\ Leaves(p, "read") =>
                pc'[p] = "acquire" /\ result'[p] = result[p]]_vars

\* the file is there with the stamp of a drop, after a second invocation
\* found no file, was not skipped and created it
C32_Witness ==
    \E p, q \in Procs :
        /\ p # q
        /\ acquires[p] = 1
        /\ releases[p] = 1
        /\ pc[q] = "acquire"
        /\ lock_content[q] = <<>>
        /\ lock_exists
        /\ lock_file = release_content(now)

\* ------------------------------------------------- a release that fails
\* the guard of the handler is dropped and release() fails: no stamp
FailedRelease ==
    /\ DropStep(HookProc)
    /\ lock_file' # release_content(now)

\* the handler's guard was dropped and the file holds no stamp
ReleaseHadFailed ==
    /\ releases[HookProc] = 1
    /\ lock_file \in {acquire_content(HookProc), <<>>}

\* what the run under the guard returned
RunResult == run_command(tool_run.val, file_path)

\* the exit code of main for what the handler returned
ExitOfResult ==
    IF result[HookProc] = "Error" THEN 1
    ELSE exit_code(AutomationResultOf(HookProc))

\* the drop neither panics nor changes the result or the exit code
NotEscalated ==
    /\ [][FailedRelease =>
            /\ pc'[HookProc] = "done"
            /\ result'[HookProc] = RunResult]_vars
    /\ [](ReleaseHadFailed /\ exit_status.some =>
            /\ result[HookProc] = RunResult
            /\ exit_status.val = ExitOfResult)

\* C35: release failures are logged and never escalated: if writing the
\* timestamp in release() fails during a guard drop, the drop neither panics
\* nor changes the AutomationResult or exit code of the run, and the lock
\* file is left as it was (still holding the holder's PID).
C35_ReleaseFailure ==
    /\ NotEscalated
    /\ [][FailedRelease =>
            /\ lock_exists'
            /\ lock_file' = lock_file
            /\ lock_file' = acquire_content(HookProc)]_vars

\* C35, amended: the file is left as it was when it could not be opened,
\* and empty when the write failed after the file was truncated
C35_ReleaseFailureLeavesNoStamp ==
    /\ NotEscalated
    /\ [][FailedRelease =>
            /\ lock_exists'
            /\ lock_file = acquire_content(HookProc)
            /\ lock_file' \in {lock_file, <<>>}]_vars

\* the linter failed, the release failed too: the file still holds the PID
\* of the handler's process and main has exited with the code of Failure
C35_Witness ==
    /\ ReleaseHadFailed
    /\ lock_file = acquire_content(HookProc)
    /\ result[HookProc] = "Failure"
    /\ exit_status.some
    /\ exit_status.val = 2

\* the release failed after the file was truncated: the file is empty
C35_EmptiedByFailedRelease ==
    /\ releases[HookProc] = 1
    /\ lock_exists
    /\ lock_file = <<>>
    /\ pc[HookProc] = "done"

\* ------------------------------------------------------ binary detection
\* a 0x00 byte occurs among the first BufLen bytes of the file
NullAtStart(f) == \E i \in 1..Len(f.bytes) : i <= BufLen /\ f.bytes[i] = 0

\* the call in `context` got as far as the binary check, which could read
\* the file, and no other rule excludes the file
BinaryCheckDecides(context) ==
    /\ verdict[context] # "none"
    /\ PatternVerdict(context) = "false"
    /\ file.exists /\ file.readable
    /\ Len(file.bytes) <= checker.max_file_size_bytes
    /\ checker.skip_binary_files
    /\ ~(checker.skip_generated_files /\ is_generated_file(file_path))

\* C36: binary detection: is_binary_file returns true exactly when a 0x00
\* byte occurs among the first 1024 bytes of the file; an empty file and a
\* text file without null bytes are not binary, and a null byte that occurs
\* only after the first 1024 bytes does not make the file binary.
C36_BinaryDetection ==
    /\ file.exists =>
          /\ is_binary_file(file) = "true" <=> file.readable /\ NullAtStart(file)
          /\ file.readable /\ ~NullAtStart(file) =>
                is_binary_file(file) = "false"
    /\ \A context \in Contexts :
          BinaryCheckDecides(context) =>
              (verdict[context] = "true" <=> NullAtStart(file))

\* a file with a null byte after the first BufLen bytes only was found not
\* excluded by a checker that skips binary files
C36_Witness ==
    /\ file.exists /\ file.readable
    /\ Len(file.bytes) > BufLen
    /\ ~NullAtStart(file)
    /\ \E i \in 1..Len(file.bytes) : file.bytes[i] = 0
    /\ BinaryCheckDecides("Any")
    /\ Returned("Any", "false")

\* an empty file was found not excluded by a checker that skips binary
\* files
C36_EmptyFileIsText ==
    /\ file.bytes = <<>>
    /\ BinaryCheckDecides("Lint")
    /\ Returned("Lint", "false")

\* -------------------------------------------------------- file heuristics
\* what the claim calls excluded by a heuristic: over the size limit, or
\* binary with the flag on, or generated with the flag on
HeuristicExcludes ==
    \/ Len(file.bytes) > checker.max_file_size_bytes
    \/ checker.skip_binary_files /\ NullAtStart(file)
    \/ checker.skip_generated_files /\ is_generated_file(file_path)

\* the binary check is reached and cannot open or read the file
BinaryCheckFails ==
    /\ Len(file.bytes) <= checker.max_file_size_bytes
    /\ checker.skip_binary_files
    /\ ~file.readable

\* C34: file heuristics: an existing path matched by no applicable pattern
\* is excluded if and only if its size is strictly greater than
\* max_file_size_bytes, or skip_binary_files is on and the file is binary,
\* or skip_generated_files is on and the path contains a generated-file
\* marker; a file whose size equals the maximum is not excluded by size,
\* and with a flag off its check is never applied; the checks run in the
\* order size, binary, generated.
C34_FileHeuristics ==
    \A context \in Contexts :
        file.exists /\ PatternVerdict(context) = "false" =>
            /\ Verdict(context) = "true" <=> HeuristicExcludes
            /\ Verdict(context) = "false" <=> ~HeuristicExcludes
            /\ verdict[context] # "none" =>
                  (verdict[context] = "true" <=> HeuristicExcludes)

\* C34 holds of every file the binary check can read or does not reach;
\* on the others the verdict is an error, the marker in the path
\* notwithstanding
C34_FileHeuristicsUnlessUnreadable ==
    \A context \in Contexts :
        file.exists /\ PatternVerdict(context) = "false" =>
            /\ BinaryCheckFails =>
                  /\ Verdict(context) = "error"
                  /\ verdict[context] \in {"none", "error"}
            /\ ~BinaryCheckFails =>
                  /\ Verdict(context) = "true" <=> HeuristicExcludes
                  /\ Verdict(context) = "false" <=> ~HeuristicExcludes
                  /\ verdict[context] # "none" =>
                        (verdict[context] = "true" <=> HeuristicExcludes)

\* a file that cannot be read, with a generated-file marker in its path,
\* was asked about with both flags on: the call failed
C34_ErrorOnGeneratedFile ==
    /\ file.exists /\ ~file.readable
    /\ PatternVerdict("Lint") = "false"
    /\ checker.skip_binary_files
    /\ checker.skip_generated_files
    /\ is_generated_file(file_path)
    /\ Returned("Lint", "error")

\* ------------------------------------------------------ evaluation order
Matchers == {"global_globset", "lint_globset", "test_globset"}
FileSystemCalls == {"exists", "metadata", "open", "read"}

\* the matchers that apply in a context
Applicable(context) ==
    CASE context = "Any" -> Matchers
      [] context = "Lint" -> {"global_globset", "lint_globset"}
      [] context = "Test" -> {"global_globset", "test_globset"}

\* the positions of the entries of a sequence that lie in a set
Positions(s, set) == {i \in 1..Len(s) : s[i] \in set}

\* C33: evaluation order of should_exclude_context: the global matcher is
\* consulted before the context matchers, and a path excluded by a pattern
\* causes no filesystem access at all (no existence check, no metadata
\* read, no content read); the file is stat-ed or read only after every
\* applicable pattern check has passed.
C33_EvaluationOrder ==
    \A context \in Contexts :
        verdict[context] # "none" =>
            LET s == accesses[context]
            IN  /\ s # <<>> /\ s[1] = "global_globset"
                /\ Positions(s, {"global_globset"}) = {1}
                /\ PatternVerdict(context) = "true" =>
                      /\ verdict[context] = "true"
                      /\ Positions(s, FileSystemCalls) = {}
                /\ Positions(s, FileSystemCalls) # {} =>
                      /\ PatternVerdict(context) = "false"
                      /\ \A i \in Positions(s, Matchers),
                            j \in Positions(s, FileSystemCalls) : i < j
                      /\ {s[i] : i \in Positions(s, Matchers)}
                            = Applicable(context)

\* a binary file on the lint_skip list was found excluded for Lint without
\* any access to the file system, and a call for Test, where no pattern
\* matches it, went on to read it
C33_Witness ==
    /\ MatchedOnlyBy(checker.lint_globset, checker.test_globset)
    /\ file.exists /\ file.readable /\ file.bytes = <<0>>
    /\ checker.skip_binary_files
    /\ Returned("Lint", "true")
    /\ accesses["Lint"] = <<"global_globset", "lint_globset">>
    /\ Returned("Test", "true")
    /\ accesses["Test"]
          = <<"global_globset", "test_globset", "exists", "metadata",
              "open", "read">>

====
